---- MODULE Spec2Model ----
(***************************************************************************)
(* Agentic RAG orchestration engine of the AI research assistant:          *)
(* planner, retriever, summarizer, evaluator and feedback nodes wired by   *)
(* backend/workflow.py, the /chat and /research endpoints that invoke it,  *)
(* the pure decision function of backend/agents/planner.py, and the        *)
(* chunk ingestion of backend/utils/article_utils.py with its three        *)
(* stores: vector index, durable chunks table, in-memory chunk-id cache.   *)
(*                                                                         *)
(* Text is modelled as a sequence of one-character strings so that         *)
(* lower-casing, stripping and substring search are computed.              *)
(***************************************************************************)
EXTENDS Integers, Sequences, FiniteSets, Bags, TLC

(* ------------------------------ bounds --------------------------------- *)
\* largest local document count handed to decide() when it is called alone
MaxLocalCount == 12
\* most hits one web search returns in the model
MaxHits == 1
\* most explicit URLs in one research request
MaxUrls == 2
\* most summarize_article calls started when ingestion is looked at alone
MaxIngests == 3
\* length of a page that is cut into two chunks
HugeLen == 2000
\* most hits handed to run_full_research when it is called alone
MaxProbeHits == 2
\* longest message buffer of the session; a request needs room for its two messages
MaxMessages == 2
\* the per-invocation visit and call counters stop counting here
CounterCap == 4
\* character counts of the article bodies the adapters hand back
ShortLen == 50
LongLen == 300

(* --------------------------- text helpers ------------------------------ *)
LowerChar(c) ==
  CASE c = "A" -> "a"
    [] c = "B" -> "b"
    [] c = "C" -> "c"
    [] c = "D" -> "d"
    [] c = "E" -> "e"
    [] c = "F" -> "f"
    [] c = "G" -> "g"
    [] c = "H" -> "h"
    [] c = "I" -> "i"
    [] c = "J" -> "j"
    [] c = "K" -> "k"
    [] c = "L" -> "l"
    [] c = "M" -> "m"
    [] c = "N" -> "n"
    [] c = "O" -> "o"
    [] c = "P" -> "p"
    [] c = "Q" -> "q"
    [] c = "R" -> "r"
    [] c = "S" -> "s"
    [] c = "T" -> "t"
    [] c = "U" -> "u"
    [] c = "V" -> "v"
    [] c = "W" -> "w"
    [] c = "X" -> "x"
    [] c = "Y" -> "y"
    [] c = "Z" -> "z"
    [] OTHER -> c

\* str.lower()
Lower(s) == [i \in 1..Len(s) |-> LowerChar(s[i])]

IsSpace(c) == c \in {" ", "\t", "\n", "\r"}

RECURSIVE LStrip(_)
LStrip(s) == IF s # <<>> /\ IsSpace(Head(s)) THEN LStrip(Tail(s)) ELSE s

RECURSIVE RStrip(_)
RStrip(s) ==
  IF s # <<>> /\ IsSpace(s[Len(s)]) THEN RStrip(SubSeq(s, 1, Len(s) - 1)) ELSE s

\* str.strip()
Strip(s) == RStrip(LStrip(s))

\* Python's `sub in s` for strings
IsSubstring(sub, s) ==
  \E i \in 0..(Len(s) - Len(sub)) : SubSeq(s, i + 1, i + Len(sub)) = sub

(* ------------------------------ config --------------------------------- *)
RETRIEVAL_K == 5
RETRIEVAL_MIN_DOCS == 3
MIN_ARTICLE_CHARS == 200
MAX_HISTORY_MESSAGES == 12

TIME_SENSITIVE_KEYWORDS ==
  { <<"l", "a", "t", "e", "s", "t">>,
    <<"b", "r", "e", "a", "k", "i", "n", "g">>,
    <<"n", "e", "w", "s">>,
    <<"t", "o", "d", "a", "y">>,
    <<"t", "h", "i", "s", " ", "w", "e", "e", "k">>,
    <<"r", "e", "c", "e", "n", "t">>,
    <<"u", "p", "d", "a", "t", "e">>,
    <<"u", "p", "d", "a", "t", "e", "d">>,
    <<"c", "u", "r", "r", "e", "n", "t", "l", "y">>,
    <<"n", "o", "w">>,
    <<"2", "0", "2", "4">>,
    <<"2", "0", "2", "5">>,
    <<"2", "0", "2", "6">> }

(* --------------------------- agents/planner ---------------------------- *)
_contains_time_keyword(q) ==
  LET ql == Lower(q)
  IN  \E kw \in TIME_SENSITIVE_KEYWORDS : IsSubstring(Lower(Strip(kw)), ql)

\* variant: local sufficiency is tested before time-sensitivity
decide_CountFirst(query, retrieved_count) ==
  IF retrieved_count < RETRIEVAL_MIN_DOCS
  THEN [mode |-> "quick_web", reason |-> "insufficient_local_docs"]
  ELSE IF _contains_time_keyword(query)
       THEN [mode |-> "quick_web", reason |-> "time_sensitive"]
       ELSE [mode |-> "local", reason |-> "sufficient_local_docs"]

\* variant: a time-sensitive chat query is sent to full research
decide_KeywordResearch(query, retrieved_count) ==
  IF _contains_time_keyword(query)
  THEN [mode |-> "full_research", reason |-> "time_sensitive"]
  ELSE IF retrieved_count < RETRIEVAL_MIN_DOCS
       THEN [mode |-> "quick_web", reason |-> "insufficient_local_docs"]
       ELSE [mode |-> "local", reason |-> "sufficient_local_docs"]

\* variant: the minimum itself counts as insufficient
decide_Leq(query, retrieved_count) ==
  IF _contains_time_keyword(query)
  THEN [mode |-> "quick_web", reason |-> "time_sensitive"]
  ELSE IF retrieved_count <= RETRIEVAL_MIN_DOCS
       THEN [mode |-> "quick_web", reason |-> "insufficient_local_docs"]
       ELSE [mode |-> "local", reason |-> "sufficient_local_docs"]

decide(query, retrieved_count) ==
  IF _contains_time_keyword(query)
  THEN [mode |-> "quick_web", reason |-> "time_sensitive"]
  ELSE IF retrieved_count < RETRIEVAL_MIN_DOCS
       THEN [mode |-> "quick_web", reason |-> "insufficient_local_docs"]
       ELSE [mode |-> "local", reason |-> "sufficient_local_docs"]

(* --------------------------- sample texts ------------------------------ *)
Q_Inflation == <<"W", "h", "a", "t", " ", "i", "s", " ", "t", "h", "e", " ", "l", "a", "t", "e", "s", "t", " ", "n", "e", "w", "s", " ", "o", "n", " ", "i", "n", "f", "l", "a", "t", "i", "o", "n", "?">>
Q_NOW == <<"N", "O", "W">>
Q_Know == <<"I", " ", "k", "n", "o", "w">>
Q_Cats == <<"c", "a", "t", "s">>
Q_Empty == <<>>
Q_NewS == <<"N", "e", "w", " ", "s">>
Q_ThisWeek == <<"T", "h", "i", "s", " ", " ", "w", "e", "e", "k">>
Q_Year == <<"i", "n", " ", "2", "0", "2", "6">>
Q_Rag == <<"E", "x", "p", "l", "a", "i", "n", " ", "R", "A", "G">>
COULD_NOT_ANSWER == <<"I", " ", "c", "o", "u", "l", "d", " ", "n", "o", "t", " ", "g", "e", "n", "e", "r", "a", "t", "e", " ", "a", "n", " ", "a", "n", "s", "w", "e", "r", ".">>
A_Yes == <<"Y", "e", "s", ".">>
A_Untrue == <<"u", "n", "t", "r", "u", "e">>
A_Dunno == <<"n", "o", " ", "i", "d", "e", "a">>
R_Object == <<"{", "}">>
R_Broken == <<"{", "o", "k", "}">>
R_NoWay == <<"N", "o", " ", "w", "a", "y", ".">>
A_Confident == <<"I", "'", "m", " ", "c", "o", "n", "f", "i", "d", "e", "n", "t", " ", "t", "h", "e", " ", "a", "n", "s", "w", "e", "r", " ", "i", "s", " ", "c", "o", "r", "r", "e", "c", "t", ".">>

SampleQueries ==
  {Q_Inflation, Q_NOW, Q_Know, Q_Cats, Q_Empty, Q_NewS, Q_ThisWeek, Q_Year, Q_Rag}

SampleCounts == (0..MaxLocalCount) \cup {100}

(* ------------------------------ state ---------------------------------- *)
VARIABLES
  cfg,        \* process configuration read at import: Tavily client, USE_TAVILY_ONLY
  workflow,   \* routers/chat.py global `workflow` is set
  messages,   \* sessions[sid]["messages"] of the session the caller uses
  req,        \* the request being served: "none" | "chat" | "research"
  response,   \* what the caller got for the last request
  status,     \* engine: "idle" | "running" | "terminal" | "raised"
  ws,         \* WorkflowState of the running invocation (present keys only)
  active,     \* nodes of the current superstep that have not run yet
  pending,    \* nodes triggered for the next superstep
  visits,     \* runs of each node in this invocation
  calls,      \* adapter calls made by the node that ran last
  retrievalOk,\* some vector-index or search-provider call of this request succeeded
  probe,      \* last stand-alone call of an agent function
  vindex,     \* vector index: bag of <<session_id, chunk_id>> added by ingestion
  chunks,     \* durable chunks table: rows, chunk_id is the primary key
  chunk_ids,  \* sessions[sid]["chunk_ids"] of the sessions held in memory
  ing,        \* summarize_article calls in progress, one per worker thread
  hist,       \* ingestions started and ingestions completed without a failed call
  sessions,   \* utils.sessions_store.sessions: user_id and messages of each held session
  chats       \* chats table: user_id and messages of each saved session

storeVars == <<vindex, chunks, chunk_ids, ing, hist, sessions, chats>>

vars == <<cfg, workflow, messages, req, response, status, ws, active,
          pending, visits, calls, retrievalOk, probe, vindex, chunks,
          chunk_ids, ing, hist, sessions, chats>>

engineVars == <<cfg, workflow, messages, req, response, status, ws,
                active, pending, visits, calls, retrievalOk>>

Nodes == {"planner", "retriever", "summarizer", "evaluator", "feedback"}

SID == "s1"
None == "<None>"
\* None where a text is expected
NoText == <<"<None>">>
NoProbe == [called |-> FALSE]
NoResponse == [code |-> 0]
EmptyState == [k \in {} |-> None]
ZeroVisits == [n \in Nodes |-> 0]
ZeroCalls == [index |-> 0, llm |-> 0, search |-> 0, fetch |-> 0, index_err |-> FALSE,
              fetched |-> <<>>]

Bump(n) == IF n < CounterCap THEN n + 1 ELSE n

\* dict.get(k, default)
Get(d, k, default) == IF k \in DOMAIN d THEN d[k] ELSE default

(* ------------------- replies of the external services ------------------ *)
SeqsUpTo(S, n) == UNION {[1..k -> S] : k \in 0..n}

\* vector index: as_retriever, retriever.invoke and the older
\* get_relevant_documents each work or throw; n documents of the session come back
IndexReplies(k) ==
  {[make |-> "err", invoke |-> "idle", legacy |-> "idle", n |-> 0],
   [make |-> "ok", invoke |-> "err", legacy |-> "err", n |-> 0]} \cup
  {[make |-> "ok", invoke |-> "ok", legacy |-> "idle", n |-> i] : i \in 0..k} \cup
  {[make |-> "ok", invoke |-> "err", legacy |-> "ok", n |-> i] : i \in 0..k}

\* some call of the vector index returned documents (possibly none)
IndexOk(reply) ==
  reply.make = "ok" /\ (reply.invoke = "ok" \/ reply.legacy = "ok")

\* some call of the vector index threw
IndexThrew(reply) == reply.make = "err" \/ reply.invoke = "err"

\* Tavily: search() raises, or returns results (already {title, url, content})
U1 == <<"u", "1">>
U2 == <<"u", "2">>
T1 == <<"t">>

TavilyHits ==
  { [title |-> T1, url |-> U1, content |-> LongLen],
    [title |-> T1, url |-> <<>>, content |-> ShortLen],
    [title |-> <<>>, url |-> U2, content |-> 0] }

TavilyReplies ==
  {[raised |-> TRUE, results |-> <<>>]} \cup
  {[raised |-> FALSE, results |-> r] : r \in SeqsUpTo(TavilyHits, MaxHits)}

\* DuckDuckGo: the ddgs library and the HTML scrape each work or throw
DdgHits == {[title |-> T1, url |-> U1]}

DdgReplies ==
  {[ddgs |-> "err", html |-> "err", results |-> <<>>]} \cup
  {[ddgs |-> a, html |-> "ok", results |-> r] :
     a \in {"ok", "err"}, r \in SeqsUpTo(DdgHits, MaxHits)}

\* URL fetcher: length of the extracted body, 0 when the fetch fails
FetchReplies == {0, ShortLen, LongLen}

\* answering from documents: the chain's index query or its model call
\* raises, or the model returns text
AnswerReplies ==
  {[raised |-> TRUE, why |-> w, text |-> <<>>] : w \in {"index", "llm"}} \cup
  {[raised |-> FALSE, why |-> "", text |-> t] : t \in {A_Yes, A_Dunno}}

\* JSON values as json.loads returns them; numbers are kept in tenths
JBool(b) == [t |-> "bool", b |-> b]
JNum(n) == [t |-> "num", n |-> n]
JStr(x) == [t |-> "str", s |-> x]
JNull == [t |-> "null"]
Absent == [t |-> "absent"]

\* a JSON object with the keys ok, confidence, notes that are not Absent
JObject(ok, confidence, notes) ==
  LET full == [ok |-> ok, confidence |-> confidence, notes |-> notes]
  IN  [k \in {x \in DOMAIN full : full[x] # Absent} |-> full[k]]

\* json.loads of the braces part of a reply: raises, or returns the object
LoadsFails == [ok |-> FALSE]
Loads(parsed) == [ok |-> TRUE, parsed |-> parsed]

\* the evaluator's model call raises, or says a text
Said(text, loads) == [kind |-> "said", text |-> text, loads |-> loads]
EvalError == [kind |-> "error"]

\* language model as evaluator: JSON with ok/confidence, prose, or error
EvalReplies ==
  { Said(R_Object, Loads(JObject(JBool(TRUE), JNum(9), JStr("model")))),
    Said(R_Object, Loads(JObject(JBool(FALSE), JNum(3), JStr("model")))),
    Said(A_Confident, LoadsFails),
    EvalError }

\* replies for evaluate_answer called alone: objects with missing, odd and
\* out-of-range fields, broken JSON, prose, error
EvalProbeReplies ==
  {Said(R_Object, Loads(JObject(ok, confidence, notes))) :
     ok \in {Absent, JBool(TRUE), JBool(FALSE), JStr("false"), JNull},
     confidence \in {Absent, JNum(9), JNum(3), JNum(15), JNum(0 - 5), JStr("high"),
                     JNull, JBool(TRUE)},
     notes \in {Absent, JStr("thin")}} \cup
  {Said(R_Broken, LoadsFails), Said(A_Confident, LoadsFails),
   Said(R_NoWay, LoadsFails), EvalError}

(* -------------------------- agents/retriever --------------------------- *)
LocalDoc(sid) ==
  [page_content |-> LongLen,
   metadata |-> [session_id |-> sid, doc_id |-> <<"d", "1">>, url |-> U1]]

Min(a, b) == IF a < b THEN a ELSE b

\* variant: the fallback to the older interface is not guarded
retrieve_docs_LegacyUnguarded(reply, sid, k) ==
  LET docs == [i \in 1..Min(reply.n, k) |-> LocalDoc(sid)]
  IN  IF reply.make # "ok" THEN [raised |-> FALSE, value |-> <<>>]
      ELSE IF reply.invoke = "ok" THEN [raised |-> FALSE, value |-> docs]
      ELSE IF reply.legacy = "ok" THEN [raised |-> FALSE, value |-> docs]
      ELSE [raised |-> TRUE, value |-> <<>>]

\* fail soft: any retrieval error gives []
retrieve_docs(reply, sid, k) ==
  LET docs == [i \in 1..Min(reply.n, k) |-> LocalDoc(sid)]
  IN  IF reply.make # "ok" THEN [raised |-> FALSE, value |-> <<>>]
      ELSE IF reply.invoke = "ok" THEN [raised |-> FALSE, value |-> docs]
      ELSE IF reply.legacy = "ok" THEN [raised |-> FALSE, value |-> docs]
      ELSE [raised |-> FALSE, value |-> <<>>]

\* `try: retrieve_docs(...) except Exception: docs = []` of the workflow nodes
Guarded(r) == IF r.raised THEN <<>> ELSE r.value

(* --------------------------- utils/tavily_utils ------------------------ *)
\* result: raised (the exception leaves the function), value, provider calls made
tavily_quick_answers(c, reply) ==
  IF ~c.tavily
  THEN [raised |-> FALSE, value |-> <<>>, ncalls |-> 0, ok |-> FALSE]
  ELSE IF reply.raised
       THEN [raised |-> TRUE, value |-> <<>>, ncalls |-> 1, ok |-> FALSE]
       ELSE [raised |-> FALSE, value |-> reply.results, ncalls |-> 1, ok |-> TRUE]

\* variant: USE_TAVILY_ONLY is not consulted
duckduckgo_fallback_Unconditional(c, reply) ==
  IF reply.ddgs = "ok" \/ reply.html = "ok"
  THEN [raised |-> FALSE, value |-> reply.results, ncalls |-> 1, ok |-> TRUE]
  ELSE [raised |-> FALSE, value |-> <<>>, ncalls |-> 1, ok |-> FALSE]

duckduckgo_fallback(c, reply) ==
  IF c.tavily_only
  THEN [raised |-> FALSE, value |-> <<>>, ncalls |-> 0, ok |-> FALSE]
  ELSE IF reply.ddgs = "ok"
       THEN [raised |-> FALSE, value |-> reply.results, ncalls |-> 1, ok |-> TRUE]
       ELSE IF reply.html = "ok"
            THEN [raised |-> FALSE, value |-> reply.results, ncalls |-> 1, ok |-> TRUE]
            ELSE [raised |-> FALSE, value |-> <<>>, ncalls |-> 1, ok |-> FALSE]

web_search(c, treply, dreply) ==
  LET hits == tavily_quick_answers(c, treply)
      fb   == duckduckgo_fallback(c, dreply)
  IN  IF hits.raised THEN hits
      ELSE IF hits.value # <<>> THEN hits
      ELSE [raised |-> FALSE, value |-> fb.value,
            ncalls |-> hits.ncalls + fb.ncalls, ok |-> hits.ok \/ fb.ok]

(* -------------------------- agents/evaluator --------------------------- *)
Y_yes == <<"y", "e", "s">>
Y_true == <<"t", "r", "u", "e">>
Y_confident == <<"i", "'", "m", " ", "c", "o", "n", "f", "i", "d", "e", "n", "t">>

HEURISTIC_NOTES == "Could not parse LLM JSON; used heuristic."

\* re.search(r"\{.*\}", text, re.S): an opening brace with a closing one after it
HasObject(text) ==
  \E i, j \in 1..Len(text) : i < j /\ text[i] = "{" /\ text[j] = "}"

\* bool(v)
Truthy(v) ==
  CASE v.t = "bool" -> v.b
    [] v.t = "num" -> v.n # 0
    [] v.t = "str" -> v.s # ""
    [] OTHER -> FALSE

\* float(v) returns: for numbers and booleans; a word or null raises
Floatable(v) == v.t \in {"bool", "num"}

\* float(v) in tenths
FloatOf(v) == IF v.t = "num" THEN v.n ELSE IF v.b THEN 10 ELSE 0

\* "yes", "true" or "i'm confident" in the lower-cased text
HasMarker(text) ==
  LET lower == Lower(text)
  IN  \/ IsSubstring(Y_yes, lower)
      \/ IsSubstring(Y_true, lower)
      \/ IsSubstring(Y_confident, lower)

\* the model's object was read: invoke returned, the braces were found,
\* json.loads and float returned
ReplyRead(reply) ==
  /\ reply.kind = "said"
  /\ HasObject(reply.text)
  /\ reply.loads.ok
  /\ Floatable(Get(reply.loads.parsed, "confidence", JNum(0)))

\* variant: the marker is looked for in the model's reply
evaluate_answer_MarkerInReply(answer, reply) ==
  IF ReplyRead(reply)
  THEN LET parsed == reply.loads.parsed
       IN  [ok |-> Truthy(Get(parsed, "ok", JBool(FALSE))),
            confidence |-> FloatOf(Get(parsed, "confidence", JNum(0))),
            notes |-> Get(parsed, "notes", JStr("")).s]
  ELSE LET ok == HasMarker(Get(reply, "text", <<>>))
       IN  [ok |-> ok, confidence |-> IF ok THEN 6 ELSE 2,
            notes |-> HEURISTIC_NOTES]

\* confidence is kept in tenths: 6 is 0.6
evaluate_answer(answer, reply) ==
  IF ReplyRead(reply)
  THEN LET parsed == reply.loads.parsed
       IN  [ok |-> Truthy(Get(parsed, "ok", JBool(FALSE))),
            confidence |-> FloatOf(Get(parsed, "confidence", JNum(0))),
            notes |-> Get(parsed, "notes", JStr("")).s]
  ELSE LET ok == HasMarker(answer)
       IN  [ok |-> ok, confidence |-> IF ok THEN 6 ELSE 2,
            notes |-> HEURISTIC_NOTES]

\* the model call (plain prompt or conversational chain) raises or answers
answer_from_docs(docs, reply) ==
  IF reply.raised THEN [raised |-> TRUE, value |-> <<>>]
  ELSE [raised |-> FALSE, value |-> reply.text]

(* ------------------- utils/article_utils, rag_pipeline ------------------ *)
\* variant: the title is left out of the identifier
stable_doc_id_UrlOnly(url, title) == url

\* the text that is hashed; the digest itself is taken as injective on it
stable_doc_id(url, title) == url \o <<":", ":">> \o title

SKIPPED == "Skipped (insufficient content)."
SUMMARY_FAILED == "Summary generation failed."
NO_CONTENT == "No sufficient content to summarize."

\* llm_ok: the summarization call of the language model returned
summarize_article(article_len, llm_ok) ==
  IF article_len < MIN_ARTICLE_CHARS THEN SKIPPED
  ELSE IF llm_ok THEN "summary" ELSE SUMMARY_FAILED

\* the index query and the model call are not guarded: either failure raises
generate_overall_summary(reply) ==
  IF reply = "ok" THEN [raised |-> FALSE, value |-> "synthesis"]
  ELSE [raised |-> TRUE, value |-> ""]

SynthReplies == {"ok", "index_error", "llm_error"}

(* ------------- utils/article_utils, db: chunk ingestion ---------------- *)
CHUNK_SIZE == 1500
CHUNK_OVERLAP == 200

\* chunks the splitter cuts a text of n characters into: windows of
\* CHUNK_SIZE characters that overlap by CHUNK_OVERLAP
NumChunks(n) ==
  IF n <= CHUNK_SIZE THEN 1
  ELSE 1 + ((n - CHUNK_SIZE) + (CHUNK_SIZE - CHUNK_OVERLAP) - 1)
             \div (CHUNK_SIZE - CHUNK_OVERLAP)

\* text_splitter.split_text; a text is known by its length, chunk i is its part i
split_text(article_text) ==
  [i \in 1..NumChunks(article_text) |-> [text |-> article_text, part |-> i]]

\* the fields that are hashed; the digest is taken as injective on them
_chunk_id_from_content(chunk_text, doc_id, position) ==
  <<chunk_text, doc_id, position>>

\* variant: the session is left out of the query
chunk_exists_for_session_AnySession(rows, chunk_id, session_id) ==
  \E r \in rows : r.chunk_id = chunk_id

\* SELECT 1 FROM chunks WHERE chunk_id=? AND session_id=?
chunk_exists_for_session(rows, chunk_id, session_id) ==
  \E r \in rows : r.chunk_id = chunk_id /\ r.session_id = session_id

\* INSERT INTO chunks; the IntegrityError of the primary key chunk_id is swallowed
insert_chunk_record(rows, chunk_id, doc_id, session_id, url, position) ==
  IF \E r \in rows : r.chunk_id = chunk_id
  THEN rows
  ELSE rows \cup {[chunk_id |-> chunk_id, doc_id |-> doc_id,
                    session_id |-> session_id, url |-> url, position |-> position]}

\* variant: the chunk id is looked up in the caches of all sessions
InCache_AnySession(cache, sid, c) ==
  \E x \in DOMAIN cache : c \in cache[x]

\* session_id in sessions and chunk_id in sessions[session_id].get("chunk_ids", set())
InCache(cache, sid, c) == sid \in DOMAIN cache /\ c \in cache[sid]

\* if session_id in sessions: sessions[session_id].setdefault("chunk_ids", set()).add(c)
CacheAdd(cache, sid, c) ==
  IF sid \in DOMAIN cache THEN [cache EXCEPT ![sid] = @ \cup {c}] ELSE cache

\* ensure_session: a session not held in memory is created without chunk_ids
EnsureSession(cache, sid) ==
  IF sid \in DOMAIN cache THEN cache ELSE (sid :> {}) @@ cache

NoStore == [vindex |-> EmptyBag, chunks |-> {}, chunk_ids |-> <<>>]

\* summarize_article after the summary: locals at the head of the chunk loop.
\* lookup lists what the checks said for each chunk decided so far; failed
\* records that a store call of this ingestion threw.
IngestStart(sid, url, doc_id, article_text) ==
  [pc |-> "mem", session_id |-> sid, url |-> url, doc_id |-> doc_id,
   text |-> article_text, parts |-> split_text(article_text), idx |-> 0,
   docs_to_add |-> <<>>, j |-> 1, lookup |-> <<>>, failed |-> FALSE]

IngestDone == [pc |-> "done"]

\* the store calls of summarize_article that can throw
NeedsReply(pc) == pc \in {"db", "add", "rec"}

\* one step of summarize_article on the stores S with locals st:
\*   mem   line 123, the in-memory check of chunk idx
\*   db    lines 127-135, the durable lookup
\*   add   line 150, vectorstore.add_documents
\*   rec   line 152, insert_chunk_record of added chunk j
\*   cache lines 154-155, the cache update of added chunk j
IngestStep(S, st, reply) ==
  LET sid == st.session_id
      cid == _chunk_id_from_content(st.parts[st.idx + 1], st.doc_id, st.idx)
      next(t) ==
        IF t.idx + 1 < Len(t.parts)
        THEN [t EXCEPT !.idx = @ + 1, !.pc = "mem"]
        ELSE [t EXCEPT !.idx = @ + 1,
                       !.pc = IF t.docs_to_add = <<>> THEN "done" ELSE "add"]
      append(t) ==
        next([t EXCEPT !.docs_to_add =
                         Append(@, [chunk_id |-> cid, position |-> st.idx])])
      c == st.docs_to_add[st.j]
  IN
  CASE st.pc = "mem" ->
         IF InCache(S.chunk_ids, sid, cid)
         THEN [S |-> S, st |-> next([st EXCEPT !.lookup = Append(@, "cached")])]
         ELSE [S |-> S, st |-> [st EXCEPT !.pc = "db"]]
    [] st.pc = "db" ->
         IF reply = "err"
         THEN [S |-> S,
               st |-> append([st EXCEPT !.lookup = Append(@, "error"), !.failed = TRUE])]
         ELSE IF chunk_exists_for_session(S.chunks, cid, sid)
              THEN [S |-> [S EXCEPT !.chunk_ids = CacheAdd(@, sid, cid)],
                    st |-> next([st EXCEPT !.lookup = Append(@, "found")])]
              ELSE [S |-> S, st |-> append([st EXCEPT !.lookup = Append(@, "absent")])]
    [] st.pc = "add" ->
         IF reply = "err"
         THEN [S |-> S, st |-> [st EXCEPT !.pc = "done", !.failed = TRUE]]
         ELSE [S |-> [S EXCEPT !.vindex =
                        @ (+) SetToBag({<<sid, st.docs_to_add[k].chunk_id>> :
                                          k \in 1..Len(st.docs_to_add)})],
               st |-> [st EXCEPT !.pc = "rec", !.j = 1]]
    [] st.pc = "rec" ->
         IF reply = "err"
         THEN [S |-> S, st |-> [st EXCEPT !.pc = "done", !.failed = TRUE]]
         ELSE [S |-> [S EXCEPT !.chunks =
                        insert_chunk_record(@, c.chunk_id, st.doc_id, sid,
                                            st.url, c.position)],
               st |-> [st EXCEPT !.pc = "cache"]]
    [] st.pc = "cache" ->
         [S |-> [S EXCEPT !.chunk_ids = CacheAdd(@, sid, c.chunk_id)],
          st |-> IF st.j < Len(st.docs_to_add)
                 THEN [st EXCEPT !.pc = "rec", !.j = @ + 1]
                 ELSE [st EXCEPT !.pc = "done"]]

\* how the stores behave during one request: all calls work, or the calls
\* of one kind throw
StoreModes == {"ok", "db_err", "add_err", "rec_err"}

ModeReply(mode, pc) ==
  IF \/ (mode = "db_err" /\ pc = "db")
     \/ (mode = "add_err" /\ pc = "add")
     \/ (mode = "rec_err" /\ pc = "rec")
  THEN "err" ELSE "ok"

RECURSIVE RunIngest(_, _, _)
\* summarize_article's ingestion run to its end without interruption
RunIngest(S, st, mode) ==
  IF st.pc = "done" THEN S
  ELSE LET x == IngestStep(S, st, ModeReply(mode, st.pc))
       IN  RunIngest(x.S, x.st, mode)

\* the hit is handed to summarize_article and is long enough to be chunked
Ingestible(h) ==
  /\ Get(h, "url", <<>>) # <<>>
  /\ Get(h, "content", 0) >= MIN_ARTICLE_CHARS

\* variant: a failed summarization call ends summarize_article
ReachesChunking_OnSuccess(llm_ok) == llm_ok

\* `except Exception: summary = "Summary generation failed."` goes on to the
\* chunking whether the summarization call returned or not
ReachesChunking(llm_ok) == TRUE

RECURSIVE IngestHits(_, _, _, _, _)
\* the ingestions of run_full_research, hit after hit; llm_ok tells per hit
\* whether its summarization call returned
IngestHits(S, sid, hits, llm_ok, mode) ==
  IF hits = <<>> THEN S
  ELSE LET h == Head(hits)
           S1 == IF Ingestible(h) /\ ReachesChunking(Head(llm_ok))
                 THEN RunIngest(S, IngestStart(sid, h.url,
                                  stable_doc_id(h.url, Get(h, "title", <<>>)),
                                  h.content), mode)
                 ELSE S
       IN  IngestHits(S1, sid, Tail(hits), Tail(llm_ok), mode)

(* -------------------------- agents/summarizer -------------------------- *)
\* variant: hits without content are not skipped
run_full_research_KeepsEmpty(hits, llm_ok, synth) ==
  LET usable(i) == Get(hits[i], "url", <<>>) # <<>>
      idx == SelectSeq([i \in 1..Len(hits) |-> i], usable)
      per_article ==
        [j \in 1..Len(idx) |->
           LET h == hits[idx[j]]
           IN  [doc_id |-> stable_doc_id(h.url, Get(h, "title", <<>>)),
                url |-> h.url,
                summary |-> summarize_article(Get(h, "content", 0), llm_ok[idx[j]])]]
      overall == IF per_article # <<>> THEN generate_overall_summary(synth)
                 ELSE [raised |-> FALSE, value |-> NO_CONTENT]
      nsummaries == Cardinality({j \in 1..Len(idx) :
                                   Get(hits[idx[j]], "content", 0) >= MIN_ARTICLE_CHARS})
  IN  [raised |-> overall.raised, per_article |-> per_article,
       overall |-> overall.value,
       nllm |-> nsummaries + (IF per_article # <<>> /\ synth # "index_error" THEN 1 ELSE 0),
       nindex |-> IF per_article # <<>> THEN 1 ELSE 0]

run_full_research(hits, llm_ok, synth) ==
  LET usable(i) == /\ Get(hits[i], "url", <<>>) # <<>>
                   /\ Get(hits[i], "content", 0) # 0
      idx == SelectSeq([i \in 1..Len(hits) |-> i], usable)
      per_article ==
        [j \in 1..Len(idx) |->
           LET h == hits[idx[j]]
           IN  [doc_id |-> stable_doc_id(h.url, Get(h, "title", <<>>)),
                url |-> h.url,
                summary |-> summarize_article(h.content, llm_ok[idx[j]])]]
      overall == IF per_article # <<>> THEN generate_overall_summary(synth)
                 ELSE [raised |-> FALSE, value |-> NO_CONTENT]
      nsummaries == Cardinality({j \in 1..Len(idx) :
                                   hits[idx[j]].content >= MIN_ARTICLE_CHARS})
  IN  [raised |-> overall.raised, per_article |-> per_article,
       overall |-> overall.value,
       nllm |-> nsummaries + (IF per_article # <<>> /\ synth # "index_error" THEN 1 ELSE 0),
       nindex |-> IF per_article # <<>> THEN 1 ELSE 0]

(* ------------------------------ workflow ------------------------------- *)
MAX_FEEDBACK_RETRIES == 2

_normalize(s) ==
  LET q == IF Get(s, "query", <<>>) = <<>> THEN Get(s, "topic", <<>>) ELSE s.query
      m == IF Get(s, "mode", "") = "" THEN "chat" ELSE s.mode
  IN  [query |-> q, mode |-> m] @@ s

\* a node finished: merge its update, count the visit, trigger its successors;
\* the next superstep starts when every node of this one has run, and the
\* invocation is over when a superstep triggers nothing
Step(node, upd, succs) ==
  LET rest == active \ {node}
      nxt  == pending \cup succs
  IN  /\ ws' = upd @@ ws
      /\ visits' = [visits EXCEPT ![node] = Bump(@)]
      /\ IF rest = {}
         THEN /\ active' = nxt
              /\ pending' = {}
              /\ status' = IF nxt = {} THEN "terminal" ELSE "running"
         ELSE /\ active' = rest
              /\ pending' = nxt
              /\ status' = "running"

\* an exception leaves the node and invoke()
Raise(node) ==
  /\ status' = "raised"
  /\ active' = {}
  /\ pending' = {}
  /\ visits' = [visits EXCEPT ![node] = Bump(@)]
  /\ UNCHANGED ws

Ready(node) == status = "running" /\ node \in active

\* variant: quick_web hits are summarized and ingested too
SummarizerApplies_WebModes(decision_mode, hits) ==
  decision_mode \in {"full_research", "quick_web"} /\ hits # <<>>

\* variant: the research mode is not recognised
PlannerUpdate_NoResearch(s, reply) ==
  LET retrieved_docs == Guarded(retrieve_docs(reply, Get(s, "session_id", ""), 3))
  IN  [decision |-> decide(s.query, Len(retrieved_docs)),
       retrieved_docs_preview |-> retrieved_docs]

\* what planner_node returns; `reply` is the vector index's answer, used in chat mode
PlannerUpdate(s, reply) ==
  IF s.mode = "research"
  THEN [decision |-> [mode |-> "full_research", reason |-> "explicit research"]]
  ELSE LET retrieved_docs == Guarded(retrieve_docs(reply, Get(s, "session_id", ""), 3))
       IN  [decision |-> decide(s.query, Len(retrieved_docs)),
            retrieved_docs_preview |-> retrieved_docs]

\* a service answers only when it is called: one idle reply otherwise
IndexIdle == [make |-> "idle", invoke |-> "idle", legacy |-> "idle", n |-> 0]
TavilyIdle == [raised |-> FALSE, results |-> <<>>]
DdgIdle == [ddgs |-> "err", html |-> "err", results |-> <<>>]

planner_node ==
  /\ Ready("planner")
  /\ LET s == _normalize(ws)
         research == s.mode = "research"
     IN
     \E reply \in (IF research THEN {IndexIdle} ELSE IndexReplies(3)) :
       /\ Step("planner", PlannerUpdate(s, reply), {"retriever"})
       /\ calls' = [ZeroCalls EXCEPT !.index = IF research THEN 0 ELSE 1,
                                     !.index_err = ~research /\ IndexThrew(reply)]
       /\ retrievalOk' = (retrievalOk \/ (~research /\ IndexOk(reply)))
  /\ UNCHANGED <<cfg, workflow, messages, req, response, probe>>
  /\ UNCHANGED storeVars

\* variant: every hit is wrapped, with or without content
PseudoDocs_AllHits(results, sid) ==
  [j \in 1..Len(results) |->
     [page_content |-> Get(results[j], "content", 0),
      metadata |-> [url |-> Get(results[j], "url", <<>>),
                    title |-> Get(results[j], "title", <<>>),
                    session_id |-> sid]]]

\* the hits of `results` that carry content, wrapped as session documents
PseudoDocs(results, sid) ==
  LET idx == SelectSeq([i \in 1..Len(results) |-> i],
                       LAMBDA i : Get(results[i], "content", 0) # 0)
  IN  [j \in 1..Len(idx) |->
         [page_content |-> results[idx[j]].content,
          metadata |-> [url |-> Get(results[idx[j]], "url", <<>>),
                        title |-> Get(results[idx[j]], "title", <<>>),
                        session_id |-> sid]]]

\* variant: a URL without content is kept as an empty hit
FetchedHits_KeepsAll(urls, fetched) ==
  [j \in 1..Len(urls) |->
     [title |-> <<>>, url |-> urls[j], content |-> fetched[j]]]

\* the URLs whose fetch gave content, in request order
FetchedHits(urls, fetched) ==
  LET idx == SelectSeq([i \in 1..Len(urls) |-> i], LAMBDA i : fetched[i] # 0)
  IN  [j \in 1..Len(idx) |->
         [title |-> <<>>, url |-> urls[idx[j]], content |-> fetched[idx[j]]]]

\* variant: pseudo-documents are built for full_research hits too
RetrieverOut_AllModes(decision_mode, results, sid) ==
  LET docs == PseudoDocs(results, sid)
  IN  IF results # <<>> /\ docs # <<>>
      THEN [web_results |-> results, retrieved_docs |-> docs]
      ELSE [web_results |-> results]

\* the web-search branch's result: hits, plus pseudo-documents for quick_web
RetrieverOut(decision_mode, results, sid) ==
  LET docs == PseudoDocs(results, sid)
  IN  IF decision_mode = "quick_web" /\ results # <<>> /\ docs # <<>>
      THEN [web_results |-> results, retrieved_docs |-> docs]
      ELSE [web_results |-> results]

\* the secondary provider is reached: primary gave nothing, fallback permitted
FallbackCalled(c, treply) ==
  LET hits == tavily_quick_answers(c, treply)
  IN  ~hits.raised /\ hits.value = <<>> /\ ~c.tavily_only

retriever_node ==
  /\ Ready("retriever")
  /\ LET s == _normalize(ws)
         decision_mode == Get(Get(s, "decision", EmptyState), "mode", "local")
         sid == Get(s, "session_id", "")
         urls == Get(s, "urls", <<>>)
     IN
     IF decision_mode \in {"quick_web", "full_research"}
     THEN IF decision_mode = "full_research" /\ urls # <<>>
          THEN \E fetched \in [1..Len(urls) -> FetchReplies] :
                 /\ Step("retriever", [web_results |-> FetchedHits(urls, fetched)],
                         {"summarizer", "evaluator"})
                 /\ calls' = [ZeroCalls EXCEPT !.fetch = Len(urls), !.fetched = fetched]
                 /\ UNCHANGED retrievalOk
          ELSE \E treply \in (IF cfg.tavily THEN TavilyReplies ELSE {TavilyIdle}) :
               \E dreply \in (IF FallbackCalled(cfg, treply) THEN DdgReplies ELSE {DdgIdle}) :
                 LET r == web_search(cfg, treply, dreply)
                     out == RetrieverOut(decision_mode, r.value, sid)
                 IN  /\ IF r.raised
                        THEN Raise("retriever")
                        ELSE Step("retriever", out, {"summarizer", "evaluator"})
                     /\ calls' = [ZeroCalls EXCEPT !.search = r.ncalls]
                     /\ retrievalOk' = (retrievalOk \/ r.ok)
     ELSE LET cached == "retrieved_docs_preview" \in DOMAIN s IN
          \E reply \in (IF cached THEN {IndexIdle} ELSE IndexReplies(RETRIEVAL_K)) :
            LET docs == IF cached THEN s.retrieved_docs_preview
                        ELSE Guarded(retrieve_docs(reply, sid, RETRIEVAL_K))
            IN  /\ Step("retriever", [retrieved_docs |-> docs], {"summarizer", "evaluator"})
                /\ calls' = [ZeroCalls EXCEPT !.index = IF cached THEN 0 ELSE 1,
                                              !.index_err = ~cached /\ IndexThrew(reply)]
                /\ retrievalOk' = (retrievalOk \/ (~cached /\ IndexOk(reply)))
  /\ UNCHANGED <<cfg, workflow, messages, req, response, probe>>
  /\ UNCHANGED storeVars

\* variant: the strategy is not checked
SummarizerApplies_AnyMode(decision_mode, hits) == hits # <<>>

\* the summarizer works only for full_research with hits; otherwise it returns {}
SummarizerApplies(decision_mode, hits) ==
  decision_mode = "full_research" /\ hits # <<>>

\* per hit, whether its summarization call returns; asked for summarized hits only
SummaryReplies(hits) ==
  {f \in [1..Len(hits) -> BOOLEAN] :
     \A i \in 1..Len(hits) :
       (Get(hits[i], "url", <<>>) = <<>> \/ Get(hits[i], "content", 0) < MIN_ARTICLE_CHARS)
         => f[i]}

\* some hit is usable, so the overall synthesis is requested
SynthesisCalled(hits) ==
  \E i \in 1..Len(hits) :
    Get(hits[i], "url", <<>>) # <<>> /\ Get(hits[i], "content", 0) # 0

\* what summarizer_node returns for state s: raised, or the update
SummarizerOut(s, llm_ok, synth) ==
  LET decision_mode == Get(Get(s, "decision", EmptyState), "mode", None)
      hits == Get(s, "web_results", <<>>)
      res == run_full_research(hits, llm_ok, synth)
  IN  IF SummarizerApplies(decision_mode, hits)
      THEN [raised |-> res.raised,
            upd |-> [per_article |-> res.per_article,
                     overall_summary |-> res.overall]]
      ELSE [raised |-> FALSE, upd |-> EmptyState]

summarizer_node ==
  /\ Ready("summarizer")
  /\ LET s == _normalize(ws)
         decision_mode == Get(Get(s, "decision", EmptyState), "mode", None)
         hits == Get(s, "web_results", <<>>)
     IN
     IF SummarizerApplies(decision_mode, hits)
     THEN \E llm_ok \in SummaryReplies(hits) :
          \E synth \in (IF SynthesisCalled(hits) THEN SynthReplies ELSE {"ok"}) :
          \E mode \in (IF \E i \in 1..Len(hits) : Ingestible(hits[i])
                       THEN StoreModes ELSE {"ok"}) :
            LET res == run_full_research(hits, llm_ok, synth)
                out == SummarizerOut(s, llm_ok, synth)
                S == IngestHits([vindex |-> vindex, chunks |-> chunks,
                                 chunk_ids |-> chunk_ids],
                                Get(s, "session_id", ""), hits, llm_ok, mode)
            IN  /\ IF out.raised
                   THEN Raise("summarizer")
                   ELSE Step("summarizer", out.upd, {})
                /\ calls' = [ZeroCalls EXCEPT
                              !.llm = res.nllm, !.index = res.nindex,
                              !.index_err = \/ res.nindex > 0 /\ synth = "index_error"
                                            \/ mode = "add_err"]
                /\ vindex' = S.vindex
                /\ chunks' = S.chunks
                /\ chunk_ids' = S.chunk_ids
     ELSE /\ Step("summarizer", EmptyState, {})
          /\ calls' = ZeroCalls
          /\ UNCHANGED <<vindex, chunks, chunk_ids>>
  /\ UNCHANGED <<cfg, workflow, messages, req, response, retrievalOk, probe, ing, hist,
               sessions, chats>>

\* variant: the ceiling test is off by one
should_end_from_evaluator_OffByOne(state) ==
  LET ok == Get(Get(state, "evaluation", EmptyState), "ok", TRUE)
  IN  IF ok THEN TRUE
      ELSE Get(state, "retry_count", 0) > MAX_FEEDBACK_RETRIES

\* variant: a missing evaluation counts as not ok
should_end_from_evaluator_DefaultFalse(state) ==
  LET ok == Get(Get(state, "evaluation", EmptyState), "ok", FALSE)
  IN  IF ok THEN TRUE
      ELSE Get(state, "retry_count", 0) >= MAX_FEEDBACK_RETRIES

\* evaluator -> END if ok, else feedback (with max retries)
should_end_from_evaluator(state) ==
  LET ok == Get(Get(state, "evaluation", EmptyState), "ok", TRUE)
  IN  IF ok THEN TRUE
      ELSE Get(state, "retry_count", 0) >= MAX_FEEDBACK_RETRIES

\* variant: documents without a url are left out of the sources
Sources_UrlOnly(docs) ==
  LET idx == SelectSeq([i \in 1..Len(docs) |-> i],
                       LAMBDA i : Get(docs[i].metadata, "url", <<>>) # <<>>)
  IN  [j \in 1..Len(idx) |->
         [doc_id |-> Get(docs[idx[j]].metadata, "doc_id", NoText),
          url |-> docs[idx[j]].metadata.url]]

\* one entry per document; doc_id is None for web snippets
Sources(docs) ==
  [i \in 1..Len(docs) |->
     [doc_id |-> Get(docs[i].metadata, "doc_id", NoText),
      url |-> Get(docs[i].metadata, "url", NoText)]]

\* variant: the evaluator answers even without documents
EvaluatorSkips_Never(docs) == FALSE

\* `if not docs: return {}`
EvaluatorSkips(docs) == docs = <<>>

EvalIdle == EvalError

\* variant: without documents the evaluator answers from the summaries
EvaluatorOut_ReadsSummaries(s, areply, ereply) ==
  LET docs == Get(s, "retrieved_docs", <<>>)
      answer_text == answer_from_docs(docs, areply)
      eval_res == evaluate_answer(answer_text.value, ereply)
  IN  IF EvaluatorSkips(docs) /\ "per_article" \notin DOMAIN s
      THEN [raised |-> FALSE, upd |-> EmptyState]
      ELSE [raised |-> answer_text.raised,
            upd |-> [answer |-> answer_text.value,
                     confidence |-> eval_res.confidence,
                     evaluation |-> eval_res,
                     sources |-> Sources(docs)]]

\* what evaluator_node returns for state s: raised, or the update
EvaluatorOut(s, areply, ereply) ==
  LET docs == Get(s, "retrieved_docs", <<>>)
      answer_text == answer_from_docs(docs, areply)
      eval_res == evaluate_answer(answer_text.value, ereply)
  IN  IF EvaluatorSkips(docs)
      THEN [raised |-> FALSE, upd |-> EmptyState]
      ELSE [raised |-> answer_text.raised,
            upd |-> [answer |-> answer_text.value,
                     confidence |-> eval_res.confidence,
                     evaluation |-> eval_res,
                     sources |-> Sources(docs)]]

evaluator_node ==
  /\ Ready("evaluator")
  /\ LET s == _normalize(ws)
         docs == Get(s, "retrieved_docs", <<>>)
     IN
     IF EvaluatorSkips(docs)
     THEN /\ Step("evaluator", EmptyState,
                  IF should_end_from_evaluator(ws) THEN {} ELSE {"feedback"})
          /\ calls' = ZeroCalls
     ELSE \E areply \in AnswerReplies :
          \E ereply \in (IF areply.raised THEN {EvalIdle} ELSE EvalReplies) :
            LET answer_text == answer_from_docs(docs, areply)
                res == EvaluatorOut(s, areply, ereply)
                out == res.upd
            IN  /\ IF res.raised
                   THEN Raise("evaluator")
                   ELSE Step("evaluator", out,
                             IF should_end_from_evaluator(out @@ ws)
                             THEN {} ELSE {"feedback"})
                /\ calls' = [ZeroCalls EXCEPT
                              !.llm = IF ~answer_text.raised THEN 2
                                      ELSE IF areply.why = "llm" THEN 1 ELSE 0,
                              !.index = 1,
                              !.index_err = areply.why = "index"]
  /\ UNCHANGED <<cfg, workflow, messages, req, response, retrievalOk, probe>>
  /\ UNCHANGED storeVars

\* variant: the retry counter is not advanced
FeedbackUpdate_NoIncrement(state) ==
  [retry_count |-> Get(state, "retry_count", 0),
   decision |-> [mode |-> "quick_web", reason |-> "low_confidence_retry"]]

\* variant: the strategy is left as it was
FeedbackUpdate_KeepsStrategy(state) ==
  [retry_count |-> Get(state, "retry_count", 0) + 1]

\* what feedback_node returns
FeedbackUpdate(state) ==
  LET retry == Get(state, "retry_count", 0) + 1
  IN  [retry_count |-> retry,
       decision |-> [mode |-> "quick_web", reason |-> "low_confidence_retry"]]

feedback_node ==
  /\ Ready("feedback")
  /\ Step("feedback", FeedbackUpdate(ws), {"retriever"})
  /\ calls' = ZeroCalls
  /\ UNCHANGED <<cfg, workflow, messages, req, response, retrievalOk, probe>>
  /\ UNCHANGED storeVars

(* ----------------------------- routers/chat ---------------------------- *)
RECURSIVE PairsFrom(_, _)
\* messages_to_pairs_for_lc: pending_user is the last unanswered user content
PairsFrom(msgs, pending_user) ==
  IF msgs = <<>> THEN <<>>
  ELSE LET m == Head(msgs) IN
       IF m.role = "user"
       THEN PairsFrom(Tail(msgs), [set |-> TRUE, content |-> m.content])
       ELSE IF m.role = "assistant" /\ pending_user.set
            THEN <<(<<pending_user.content, m.content>>)>>
                 \o PairsFrom(Tail(msgs), [set |-> FALSE])
            ELSE PairsFrom(Tail(msgs), pending_user)

messages_to_pairs_for_lc(msgs) == PairsFrom(msgs, [set |-> FALSE])

last_n_messages(msgs, n) ==
  IF Len(msgs) > n THEN SubSeq(msgs, Len(msgs) - n + 1, Len(msgs)) ELSE msgs

EngineQueries == {Q_NOW, Q_Cats}
NEW_RESEARCH_REQUEST == <<"N", "e", "w", " ", "r", "e", "s", "e", "a", "r", "c", "h", " ", "r", "e", "q", "u", "e", "s", "t", ":", " ">>

\* the assistant's text of a research request: the numbered per-article
\* summaries with their sources, then the overall synthesis
assistant_block(per_article, overall_summary) ==
  [lines |-> [i \in 1..Len(per_article) |->
                [n |-> i, summary |-> per_article[i].summary,
                 source |-> per_article[i].url]],
   synthesis |-> overall_summary]
UrlLists == SeqsUpTo({U1, U2}, MaxUrls)

\* workflow.invoke(input_data) starts at the entry point
Invoke(input) ==
  /\ ws' = input
  /\ active' = {"planner"}
  /\ pending' = {}
  /\ status' = "running"
  /\ visits' = ZeroVisits
  /\ calls' = ZeroCalls
  /\ retrievalOk' = FALSE

\* the workflow state is discarded when invoke() is left
Discard ==
  /\ status' = "idle"
  /\ ws' = EmptyState
  /\ active' = {}
  /\ pending' = {}
  /\ visits' = ZeroVisits
  /\ calls' = ZeroCalls
  /\ retrievalOk' = FALSE

\* variant: the missing engine is answered like a failed generation
NotInitialized_Silent(kind) ==
  /\ response' = [code |-> 200, kind |-> kind, answer |-> COULD_NOT_ANSWER,
                  sources |-> <<>>]
  /\ req' = "none"
  /\ visits' = ZeroVisits
  /\ calls' = ZeroCalls
  /\ retrievalOk' = FALSE
  /\ UNCHANGED <<ws, active, pending, status>>

\* `if not workflow: raise HTTPException(status_code=500, ...)`
NotInitialized(kind) ==
  /\ response' = [code |-> 500, kind |-> kind, detail |-> "Workflow not initialized"]
  /\ req' = "none"
  /\ visits' = ZeroVisits
  /\ calls' = ZeroCalls
  /\ retrievalOk' = FALSE
  /\ UNCHANGED <<ws, active, pending, status>>

\* POST /chat up to the call of workflow.invoke
ChatBegin(message) ==
  /\ req = "none"
  /\ Len(messages) + 2 <= MaxMessages
  /\ messages' = Append(messages, [role |-> "user", content |-> message])
  /\ IF ~workflow
     THEN NotInitialized("chat")
     ELSE /\ req' = "chat"
          /\ response' = NoResponse
          /\ Invoke([query |-> message, session_id |-> SID, mode |-> "chat",
                     history |-> messages_to_pairs_for_lc(
                                   last_n_messages(messages', MAX_HISTORY_MESSAGES))])
  /\ UNCHANGED <<cfg, workflow, probe>>
  /\ chunk_ids' = EnsureSession(chunk_ids, SID)
  /\ UNCHANGED <<vindex, chunks, ing, hist, sessions, chats>>

\* POST /chat after workflow.invoke returned
ChatReturn ==
  /\ req = "chat"
  /\ status = "terminal"
  /\ LET answer == Get(ws, "answer", COULD_NOT_ANSWER)
         sources == Get(ws, "sources", <<>>)
     IN  /\ messages' = Append(messages, [role |-> "assistant", content |-> answer])
         /\ response' = [code |-> 200, kind |-> "chat", answer |-> answer,
                         sources |-> sources]
  /\ req' = "none"
  /\ Discard
  /\ UNCHANGED <<cfg, workflow, probe>>
  /\ UNCHANGED storeVars

\* POST /research up to the call of workflow.invoke
ResearchBegin(topic, urls) ==
  /\ req = "none"
  /\ Len(messages) + 2 <= MaxMessages
  /\ messages' = Append(messages, [role |-> "user",
                                   content |-> NEW_RESEARCH_REQUEST \o topic])
  /\ IF ~workflow
     THEN NotInitialized("research")
     ELSE /\ req' = "research"
          /\ response' = NoResponse
          /\ Invoke([query |-> topic, session_id |-> SID, mode |-> "research",
                     urls |-> urls])
  /\ UNCHANGED <<cfg, workflow, probe>>
  /\ chunk_ids' = EnsureSession(chunk_ids, SID)
  /\ UNCHANGED <<vindex, chunks, ing, hist, sessions, chats>>

\* POST /research after workflow.invoke returned
ResearchReturn ==
  /\ req = "research"
  /\ status = "terminal"
  /\ LET per_article == Get(ws, "per_article", <<>>)
         overall_summary == Get(ws, "overall_summary", NO_CONTENT)
     IN  /\ messages' = Append(messages,
                          [role |-> "assistant",
                           content |-> assistant_block(per_article, overall_summary)])
         /\ response' = [code |-> 200, kind |-> "research",
                         per_article |-> per_article,
                         overall_summary |-> overall_summary]
  /\ req' = "none"
  /\ Discard
  /\ UNCHANGED <<cfg, workflow, probe>>
  /\ UNCHANGED storeVars

\* an exception of workflow.invoke leaves the endpoint: the caller gets a 500
RequestRaised ==
  /\ req \in {"chat", "research"}
  /\ status = "raised"
  /\ response' = [code |-> 500, kind |-> req, detail |-> "Internal Server Error"]
  /\ req' = "none"
  /\ Discard
  /\ UNCHANGED <<cfg, workflow, messages, probe>>
  /\ UNCHANGED storeVars

(* --------------------------- the whole service ------------------------- *)
Workers == {1, 2}

\* no summarize_article call is in progress
NoIngest == [w \in Workers |-> IngestDone]
NoHist == [begun |-> 0, clean |-> {}]

Init ==
  /\ cfg \in [tavily : BOOLEAN, tavily_only : BOOLEAN]
  /\ workflow \in BOOLEAN
  /\ messages = <<>>
  /\ req = "none"
  /\ response = NoResponse
  /\ status = "idle"
  /\ ws = EmptyState
  /\ active = {}
  /\ pending = {}
  /\ visits = ZeroVisits
  /\ calls = ZeroCalls
  /\ retrievalOk = FALSE
  /\ probe = NoProbe
  /\ vindex = EmptyBag
  /\ chunks = {}
  /\ chunk_ids = <<>>
  /\ ing = NoIngest
  /\ hist = NoHist
  /\ sessions = <<>>
  /\ chats = <<>>

ChatRequest == \E message \in EngineQueries : ChatBegin(message)

ResearchRequest == \E topic \in EngineQueries, urls \in UrlLists : ResearchBegin(topic, urls)

EngineStep ==
  \/ planner_node
  \/ retriever_node
  \/ summarizer_node
  \/ evaluator_node
  \/ feedback_node

Next ==
  \/ ChatRequest
  \/ ResearchRequest
  \/ planner_node
  \/ retriever_node
  \/ summarizer_node
  \/ evaluator_node
  \/ feedback_node
  \/ ChatReturn
  \/ ResearchReturn
  \/ RequestRaised

Spec == Init /\ [][Next]_vars

\* invoke() is one synchronous call chain: a started invocation keeps running.
\* While the engine runs, the node steps are the only steps there are and one
\* of them is enabled (EngineLive, EngineOnly), so weak fairness of EngineStep,
\* WF_vars(EngineStep), is the formula below; in this form it is evaluated on
\* the state alone, without enumerating the services' replies again.
EngineFair == []<>(status # "running") \/ []<><<status = "running">>_vars

FairSpec == Spec /\ EngineFair

EngineLive == (status = "running") <=> ENABLED EngineStep

EngineOnly == [][status = "running" => EngineStep]_vars

(* ------------- decide() called on its own (pure function) -------------- *)
DecideInit ==
  /\ probe = NoProbe
  /\ cfg = [tavily |-> TRUE, tavily_only |-> TRUE]
  /\ workflow = TRUE
  /\ messages = <<>>
  /\ req = "none"
  /\ response = NoResponse
  /\ status = "idle"
  /\ ws = EmptyState
  /\ active = {}
  /\ pending = {}
  /\ visits = ZeroVisits
  /\ calls = ZeroCalls
  /\ retrievalOk = FALSE
  /\ vindex = EmptyBag
  /\ chunks = {}
  /\ chunk_ids = <<>>
  /\ ing = NoIngest
  /\ hist = NoHist
  /\ sessions = <<>>
  /\ chats = <<>>

DecideCall(q, n) ==
  /\ probe' = [called |-> TRUE, query |-> q, count |-> n, result |-> decide(q, n)]
  /\ UNCHANGED engineVars
  /\ UNCHANGED storeVars

DecideNext == \E q \in SampleQueries, n \in SampleCounts : DecideCall(q, n)

SpecDecide == DecideInit /\ [][DecideNext]_vars

(* ------------- the agents' functions called on their own --------------- *)
Configs == [tavily : BOOLEAN, tavily_only : BOOLEAN]

SearchCall(c, treply, dreply) ==
  /\ probe' = [called |-> TRUE, kind |-> "web_search", cfg |-> c,
               treply |-> treply, dreply |-> dreply,
               result |-> web_search(c, treply, dreply)]
  /\ UNCHANGED engineVars
  /\ UNCHANGED storeVars

RetrieveCall(reply, k) ==
  /\ probe' = [called |-> TRUE, kind |-> "retrieve_docs", reply |-> reply, k |-> k,
               result |-> retrieve_docs(reply, SID, k)]
  /\ UNCHANGED engineVars
  /\ UNCHANGED storeVars

SearchProbe ==
  \E c \in Configs :
    \E treply \in (IF c.tavily THEN TavilyReplies ELSE {TavilyIdle}) :
      \E dreply \in (IF FallbackCalled(c, treply) THEN DdgReplies ELSE {DdgIdle}) :
        SearchCall(c, treply, dreply)

RetrieveProbe ==
  \E k \in {3, RETRIEVAL_K} : \E reply \in IndexReplies(k) : RetrieveCall(reply, k)

\* hits as the retriever hands them over: search results and fetched pages
ProbeHitKinds ==
  TavilyHits \cup DdgHits \cup
  {[title |-> <<>>, url |-> U1, content |-> ShortLen],
   [title |-> T1, url |-> U1, content |-> HugeLen]}

ResearchCall(hits, llm_ok, synth, mode) ==
  LET S == IngestHits([vindex |-> vindex, chunks |-> chunks, chunk_ids |-> chunk_ids],
                      SID, hits, llm_ok, mode)
  IN  /\ ~probe.called
      /\ probe' = [called |-> TRUE, kind |-> "run_full_research", hits |-> hits,
                   llm_ok |-> llm_ok, synth |-> synth, mode |-> mode,
                   result |-> run_full_research(hits, llm_ok, synth)]
      /\ vindex' = S.vindex
      /\ chunks' = S.chunks
      /\ chunk_ids' = S.chunk_ids
      /\ UNCHANGED engineVars
      /\ UNCHANGED <<ing, hist, sessions, chats>>

ResearchProbe ==
  \E hits \in SeqsUpTo(ProbeHitKinds, MaxProbeHits) :
    \E llm_ok \in SummaryReplies(hits) :
      \E synth \in (IF SynthesisCalled(hits) THEN SynthReplies ELSE {"ok"}) :
        \E mode \in (IF \E i \in 1..Len(hits) : Ingestible(hits[i])
                     THEN StoreModes ELSE {"ok"}) :
          ResearchCall(hits, llm_ok, synth, mode)

\* draft answers handed to evaluate_answer; None is read as ""
ProbeAnswers == {A_Yes, A_Untrue, A_Dunno, A_Confident, <<>>}

EvaluateCall(answer, reply) ==
  /\ ~probe.called
  /\ probe' = [called |-> TRUE, kind |-> "evaluate_answer", answer |-> answer,
               reply |-> reply, result |-> evaluate_answer(answer, reply)]
  /\ UNCHANGED engineVars
  /\ UNCHANGED storeVars

EvaluateProbe ==
  \E answer \in ProbeAnswers : \E reply \in EvalProbeReplies :
    EvaluateCall(answer, reply)

\* urls and titles handed to stable_doc_id, some holding colons; None is
\* read as ""
ProbeUrls == {U1, <<"a">>, <<"a", ":">>, <<"a", ":", ":", "b">>}
ProbeTitles == {<<>>, <<"c">>, <<":", "c">>, <<"b", ":", ":", "c">>}

\* stable_doc_id is called for two articles
DocIdCall(url1, title1, url2, title2) ==
  /\ ~probe.called
  /\ probe' = [called |-> TRUE, kind |-> "stable_doc_id",
               url1 |-> url1, title1 |-> title1, id1 |-> stable_doc_id(url1, title1),
               url2 |-> url2, title2 |-> title2, id2 |-> stable_doc_id(url2, title2)]
  /\ UNCHANGED engineVars
  /\ UNCHANGED storeVars

DocIdProbe ==
  \E url1 \in ProbeUrls, url2 \in ProbeUrls :
    \E title1 \in ProbeTitles, title2 \in ProbeTitles :
      DocIdCall(url1, title1, url2, title2)

\* the web-search branch of retriever_node is handed the hits of a search
WebBranchCall(decision_mode, results, sid) ==
  /\ ~probe.called
  /\ probe' = [called |-> TRUE, kind |-> "web_branch", mode |-> decision_mode,
               results |-> results, sid |-> sid,
               out |-> RetrieverOut(decision_mode, results, sid)]
  /\ UNCHANGED engineVars
  /\ UNCHANGED storeVars

WebBranchProbe ==
  \E decision_mode \in {"quick_web", "full_research"} :
    \E results \in SeqsUpTo(ProbeHitKinds, MaxProbeHits) :
      \E sid \in {"s1", "s2"} :
        WebBranchCall(decision_mode, results, sid)

AgentsNext ==
  \/ WebBranchProbe
  \/ SearchProbe
  \/ RetrieveProbe
  \/ ResearchProbe
  \/ EvaluateProbe
  \/ DocIdProbe

SpecAgents == DecideInit /\ [][AgentsNext]_vars

(* ---------- summarize_article's ingestion in concurrent requests -------- *)
IngestSessions == {"s1", "s2"}
IngestArticles == {[url |-> U1, title |-> T1, content |-> LongLen]}

\* what identifies an ingestion: session, document and text
IngestKey(st) == <<st.session_id, st.doc_id, st.text>>

\* a /research request served by worker w reaches summarize_article for
\* article a; ensure_session has put the session in memory
IngestBegin(w, sid, a) ==
  LET st == IngestStart(sid, a.url, stable_doc_id(a.url, a.title), a.content)
  IN  /\ ing[w].pc = "done"
      /\ hist.begun < MaxIngests
      /\ ing' = [ing EXCEPT ![w] = [repeat |-> IngestKey(st) \in hist.clean] @@ st]
      /\ hist' = [hist EXCEPT !.begun = @ + 1]
      /\ chunk_ids' = EnsureSession(chunk_ids, sid)
      /\ UNCHANGED <<vindex, chunks, probe, sessions, chats>>
      /\ UNCHANGED engineVars

\* worker w takes the next step of its summarize_article call
IngestAdvance(w) ==
  /\ ing[w].pc # "done"
  /\ \E reply \in (IF NeedsReply(ing[w].pc) THEN {"ok", "err"} ELSE {"ok"}) :
       LET x == IngestStep([vindex |-> vindex, chunks |-> chunks,
                            chunk_ids |-> chunk_ids], ing[w], reply)
       IN  /\ vindex' = x.S.vindex
           /\ chunks' = x.S.chunks
           /\ chunk_ids' = x.S.chunk_ids
           /\ ing' = [ing EXCEPT ![w] = x.st]
           /\ hist' = IF x.st.pc = "done" /\ ~x.st.failed
                      THEN [hist EXCEPT !.clean = @ \cup {IngestKey(x.st)}]
                      ELSE hist
  /\ UNCHANGED <<probe, sessions, chats>>
  /\ UNCHANGED engineVars

\* POST /end_chat: `del sessions[session_id]` drops the session's chunk-id cache
EndChat(sid) ==
  /\ sid \in DOMAIN chunk_ids
  /\ chunk_ids' = [x \in DOMAIN chunk_ids \ {sid} |-> chunk_ids[x]]
  /\ UNCHANGED <<vindex, chunks, ing, hist, probe, sessions, chats>>
  /\ UNCHANGED engineVars

IngestRequest == \E w \in Workers, sid \in IngestSessions, a \in IngestArticles :
                   IngestBegin(w, sid, a)

IngestWork == \E w \in Workers : IngestAdvance(w)

EndChatRequest == \E sid \in IngestSessions : EndChat(sid)

IngestNext ==
  \/ IngestRequest
  \/ IngestWork
  \/ EndChatRequest

SpecIngest == DecideInit /\ [][IngestNext]_vars

(* ------------- session ownership in the routers/chat.py handlers ------- *)
Users == {"u1", "u2"}
SessionIds == {"s1", "s2"}
\* a request that carries no session_id
NoSessionId == ""

Put(f, k, v) == [x \in DOMAIN f \cup {k} |-> IF x = k THEN v ELSE f[x]]
Drop(f, k) == [x \in DOMAIN f \ {k} |-> f[x]]

\* the in-memory sessions and the chats table, as the handlers see them
Held == [sessions |-> sessions, chats |-> chats]

\* uuid.uuid4(): ids that no session has had
FreshIds(S) == SessionIds \ (DOMAIN S.sessions \cup DOMAIN S.chats)

\* ensure_session(session_id, user_id); `fresh` is the uuid it would draw.
\* The ownership test is made only on the path that loads a saved chat.
ensure_session(S, session_id, user_id, fresh) ==
  IF session_id = NoSessionId
  THEN [code |-> 200, sid |-> fresh,
        S |-> [S EXCEPT !.sessions =
                 Put(@, fresh, [user_id |-> user_id, messages |-> <<>>])]]
  ELSE IF session_id \notin DOMAIN S.sessions
  THEN IF session_id \in DOMAIN S.chats
       THEN IF user_id # None /\ S.chats[session_id].user_id \notin {None, "", user_id}
            THEN [code |-> 403, sid |-> session_id, S |-> S]
            ELSE [code |-> 200, sid |-> session_id,
                  S |-> [S EXCEPT !.sessions =
                           Put(@, session_id,
                               [user_id |-> S.chats[session_id].user_id,
                                messages |-> S.chats[session_id].messages])]]
       ELSE [code |-> 200, sid |-> session_id,
             S |-> [S EXCEPT !.sessions =
                      Put(@, session_id, [user_id |-> user_id, messages |-> <<>>])]]
  ELSE [code |-> 200, sid |-> session_id, S |-> S]

\* POST /chat and POST /research, as far as the session store goes:
\* ensure_session, append the user message, 500 without a workflow or when
\* workflow.invoke raises, else append the assistant message
ask(S, session_id, user_id, fresh, wf, outcome) ==
  LET e == ensure_session(S, session_id, user_id, fresh)
      asked == [e.S EXCEPT !.sessions[e.sid].messages = Append(@, [role |-> "user"])]
  IN  IF e.code = 403 THEN [code |-> 403, S |-> S]
      ELSE IF ~wf \/ outcome = "raise" THEN [code |-> 500, S |-> asked]
      ELSE [code |-> 200,
            S |-> [asked EXCEPT !.sessions[e.sid].messages =
                                   Append(@, [role |-> "assistant"])]]

\* POST /new_chat
new_chat(S, user_id, fresh) ==
  [code |-> 200,
   S |-> [S EXCEPT !.sessions = Put(@, fresh, [user_id |-> user_id, messages |-> <<>>])]]

\* sessions[session_id].get("user_id") or str(current["id"])
OwnerOr(S, session_id, user_id) ==
  IF S.sessions[session_id].user_id \in {None, ""} THEN user_id
  ELSE S.sessions[session_id].user_id

\* POST /save_chat/{session_id}
save_chat(S, session_id, user_id) ==
  IF session_id \notin DOMAIN S.sessions THEN [code |-> 404, S |-> S]
  ELSE [code |-> 200,
        S |-> [S EXCEPT !.chats =
                 Put(@, session_id,
                     [user_id |-> OwnerOr(S, session_id, user_id),
                      messages |-> S.sessions[session_id].messages])]]

\* POST /end_chat/{session_id}
end_chat(S, session_id, user_id) ==
  IF session_id \notin DOMAIN S.sessions
  THEN IF session_id \in DOMAIN S.chats
       THEN IF S.chats[session_id].user_id \notin {None, "", user_id}
            THEN [code |-> 403, S |-> S]
            ELSE [code |-> 200, S |-> S]
       ELSE [code |-> 404, S |-> S]
  ELSE IF S.sessions[session_id].user_id \notin {None, "", user_id}
  THEN [code |-> 403, S |-> S]
  ELSE [code |-> 200,
        S |-> [sessions |-> Drop(S.sessions, session_id),
               chats |-> Put(S.chats, session_id,
                             [user_id |-> OwnerOr(S, session_id, user_id),
                              messages |-> S.sessions[session_id].messages])]]

\* a handler was called by user_id with session_id and answered r
Handled(kind, session_id, user_id, r) ==
  /\ \A sid \in DOMAIN r.S.sessions : Len(r.S.sessions[sid].messages) <= MaxMessages
  /\ sessions' = r.S.sessions
  /\ chats' = r.S.chats
  /\ probe' = [called |-> TRUE, kind |-> kind, session_id |-> session_id,
               user_id |-> user_id, code |-> r.code]
  /\ UNCHANGED engineVars
  /\ UNCHANGED <<vindex, chunks, chunk_ids, ing, hist>>

NewChatCall ==
  \E user_id \in Users, fresh \in FreshIds(Held) :
    Handled("new_chat", NoSessionId, user_id, new_chat(Held, user_id, fresh))

AskCall ==
  \E kind \in {"chat", "research"}, user_id \in Users,
     session_id \in SessionIds \cup {NoSessionId}, outcome \in {"return", "raise"} :
    \E fresh \in (IF session_id = NoSessionId THEN FreshIds(Held) ELSE {session_id}) :
      Handled(kind, session_id, user_id,
              ask(Held, session_id, user_id, fresh, workflow, outcome))

SaveChatCall ==
  \E user_id \in Users, session_id \in SessionIds :
    Handled("save_chat", session_id, user_id, save_chat(Held, session_id, user_id))

EndChatCall ==
  \E user_id \in Users, session_id \in SessionIds :
    Handled("end_chat", session_id, user_id, end_chat(Held, session_id, user_id))

SessionsNext ==
  \/ NewChatCall
  \/ AskCall
  \/ SaveChatCall
  \/ EndChatCall

SpecSessions == DecideInit /\ [][SessionsNext]_vars

(* ======================= properties of the engine ===================== *)
Mode == Get(ws, "mode", "")
Strategy == Get(Get(ws, "decision", EmptyState), "mode", None)
RetryCount == Get(ws, "retry_count", 0)
Scheduled == active \cup pending
HasEval == "evaluation" \in DOMAIN ws
EvalOk == HasEval /\ ws.evaluation.ok
EvalNotOk == HasEval /\ ~ws.evaluation.ok

\* the step in which node n runs to completion
NodeStep(n) == status = "running" /\ n \in active /\ status' # "raised"
               /\ visits'[n] = visits[n] + 1

\* C1: retry bound. Whatever the evaluations report (in particular when every
\* one reports ok=false) feedback is visited at most 2 times, retry_count never
\* exceeds 2, and after the evaluation that follows the second feedback no
\* further feedback is scheduled, so the invocation ends.
C1_RetryBound ==
  /\ visits["feedback"] <= MAX_FEEDBACK_RETRIES
  /\ RetryCount <= MAX_FEEDBACK_RETRIES
  /\ (visits["feedback"] = MAX_FEEDBACK_RETRIES /\ visits["evaluator"] = 3)
       => "feedback" \notin Scheduled

C1_Witness ==
  /\ status = "terminal"
  /\ visits["feedback"] = 2
  /\ RetryCount = 2
  /\ EvalNotOk

\* C2 as stated: the evaluator's edge leads to terminal exactly when the
\* evaluation reports ok=true or the retry counter has reached 2, and to
\* feedback exactly when it reports ok=false and the counter is below 2.
C2_Original ==
  [][NodeStep("evaluator") =>
       /\ ("feedback" \notin Scheduled') <=> (EvalOk' \/ RetryCount' >= 2)
       /\ ("feedback" \in Scheduled') <=> (EvalNotOk' /\ RetryCount' < 2)]_vars

\* C2 amended: the evaluator's edge leads to terminal exactly when no
\* evaluation is recorded, or the evaluation reports ok=true, or the retry
\* counter has reached 2; it leads to feedback, and feedback leads back to the
\* retriever, exactly when the evaluation reports ok=false and the counter is
\* below 2.
C2_EvaluatorEdge ==
  [][/\ NodeStep("evaluator") =>
          /\ ("feedback" \notin Scheduled') <=>
               (~HasEval' \/ EvalOk' \/ RetryCount' >= MAX_FEEDBACK_RETRIES)
          /\ ("feedback" \in Scheduled') <=>
               (EvalNotOk' /\ RetryCount' < MAX_FEEDBACK_RETRIES)
     /\ NodeStep("feedback") => "retriever" \in Scheduled']_vars

C2_Witness ==
  /\ status = "running"
  /\ visits["feedback"] = 1
  /\ visits["retriever"] = 2
  /\ EvalNotOk

\* C3: every invocation that has started, in chat or research mode, eventually
\* reaches the terminal state; the only other way out is an adapter or model
\* call that raises instead of returning.
C3_Terminates ==
  (status = "running") ~> (status = "terminal" \/ status = "raised")

C3_Witness ==
  /\ status = "terminal"
  /\ Mode = "chat"
  /\ visits["retriever"] = 3
  /\ visits["evaluator"] = 3

\* C4: in a research invocation feedback is never visited, and the retriever
\* and the summarizer each have run exactly once when terminal is reached.
C4_ResearchNoRetry ==
  Mode = "research" =>
    /\ visits["feedback"] = 0
    /\ "feedback" \notin Scheduled
    /\ visits["retriever"] <= 1
    /\ visits["summarizer"] <= 1
    /\ status = "terminal" => (visits["retriever"] = 1 /\ visits["summarizer"] = 1)

C4_Witness ==
  /\ status = "terminal"
  /\ Mode = "research"
  /\ "per_article" \in DOMAIN ws
  /\ ws.per_article # <<>>

\* C5 as stated: after the retriever the summarizer is entered exactly when the
\* strategy is full_research and the evaluator exactly when it is local or
\* quick_web.
C5_Original ==
  [][NodeStep("retriever") =>
       /\ ("summarizer" \in active') <=> (Strategy = "full_research")
       /\ ("evaluator" \in active') <=> (Strategy \in {"local", "quick_web"})]_vars

\* C5 amended: after the retriever both the summarizer and the evaluator are
\* entered, whatever the strategy; the summarizer changes the workflow state
\* only when the strategy is full_research, the evaluator only when it is
\* local or quick_web.
C5_BothEntered ==
  [][/\ NodeStep("retriever") => active' = {"summarizer", "evaluator"}
     /\ (NodeStep("summarizer") /\ ws' # ws) => Strategy = "full_research"
     /\ (NodeStep("evaluator") /\ ws' # ws) => Strategy \in {"local", "quick_web"}]_vars

C5_Witness ==
  /\ status = "running"
  /\ active = {"summarizer", "evaluator"}
  /\ Strategy = "quick_web"
  /\ Get(ws, "retrieved_docs", <<>>) # <<>>

\* C6: in research mode the planner chooses full_research with reason
\* "explicit research" whatever the query contains, makes no adapter call (the
\* vector index is not consulted), and the strategy of a research invocation
\* is never anything else.
C6_ResearchPlan ==
  [][/\ (NodeStep("planner") /\ Mode = "research") =>
          /\ ws'.decision = [mode |-> "full_research", reason |-> "explicit research"]
          /\ calls' = ZeroCalls
     /\ Mode' = "research" => Strategy' \in {None, "full_research"}]_vars

C6_Witness ==
  /\ Mode = "research"
  /\ ws.query = Q_NOW
  /\ Strategy = "full_research"
  /\ visits["planner"] = 1
  /\ active = {"retriever"}
  /\ calls = ZeroCalls

(* ======================= properties of decide() ======================= *)
\* some configured keyword occurs in q, letter case ignored
HasKeywordCI(q) ==
  \E kw \in TIME_SENSITIVE_KEYWORDS :
    \E off \in 0..(Len(q) - Len(kw)) :
      \A j \in 1..Len(kw) : LowerChar(q[off + j]) = LowerChar(kw[j])

\* C7: for a query that contains a configured time-sensitive keyword
\* (case-insensitive substring) decide returns quick_web with reason
\* time_sensitive for every local document count, also at or above the minimum.
C7_KeywordWins ==
  (probe.called /\ HasKeywordCI(probe.query)) =>
    probe.result = [mode |-> "quick_web", reason |-> "time_sensitive"]

C7_Witness ==
  /\ probe.called
  /\ probe.query = Q_Inflation
  /\ probe.count = 5
  /\ probe.result = [mode |-> "quick_web", reason |-> "time_sensitive"]

\* C8: for a query without a time-sensitive keyword decide returns local when
\* the count is at least RETRIEVAL_MIN_DOCS, and quick_web with reason
\* insufficient_local_docs when it is below.
C8_LocalSufficiency ==
  (probe.called /\ ~HasKeywordCI(probe.query)) =>
    IF probe.count >= RETRIEVAL_MIN_DOCS
    THEN probe.result.mode = "local"
    ELSE probe.result = [mode |-> "quick_web", reason |-> "insufficient_local_docs"]

C8_Witness ==
  /\ probe.called
  /\ probe.query = Q_Cats
  /\ probe.count = RETRIEVAL_MIN_DOCS
  /\ probe.result.mode = "local"

(* ================== properties of the engine, continued =============== *)
NoDocs == Get(ws, "retrieved_docs", <<>>) = <<>>

\* C9: when retrieval has produced no document in this invocation, the
\* evaluator is a no-op: it leaves the workflow state unchanged and makes no
\* adapter or model call, and the terminal state carries no answer.
C9_EvaluatorNoOp ==
  [][/\ (NodeStep("evaluator") /\ NoDocs) => (ws' = ws /\ calls' = ZeroCalls)
     /\ (status' = "terminal" /\ NoDocs') => "answer" \notin DOMAIN ws']_vars

C9_Witness ==
  /\ status = "terminal"
  /\ Mode = "chat"
  /\ visits["evaluator"] = 1
  /\ NoDocs
  /\ "web_results" \in DOMAIN ws
  /\ "answer" \notin DOMAIN ws

\* C10: a chat request during which the vector index and every web-search
\* provider failed is answered with the fixed could-not-generate message,
\* never with an error.
C10_FixedMessage ==
  [][(req = "chat" /\ req' = "none" /\ ~retrievalOk) =>
       (response'.code = 200 /\ response'.answer = COULD_NOT_ANSWER)]_vars

\* C11: the retriever stage never raises: a failure of the vector index, of a
\* search provider or of a URL fetch gives an empty result for that branch.
C11_NeverRaises ==
  [][(status = "running" /\ "retriever" \in active
        /\ visits'["retriever"] # visits["retriever"])
       => status' # "raised"]_vars

(* ================ properties of web_search, retrieve_docs ============== *)
IsSearchProbe == probe.called /\ probe.kind = "web_search"

\* what the primary provider returned; nothing when it is not configured
PrimaryHits == IF probe.cfg.tavily THEN probe.treply.results ELSE <<>>

\* calls of the secondary provider
SecondaryCalls == probe.result.ncalls - (IF probe.cfg.tavily THEN 1 ELSE 0)

\* C12: when the primary provider returns, web_search returns its hits if
\* there are any and does not call the secondary; it calls the secondary
\* exactly when the primary returned nothing (also when unconfigured) and the
\* fallback is permitted, and returns what the secondary found; otherwise it
\* returns the empty sequence.
C12_Fallback ==
  (IsSearchProbe /\ ~probe.treply.raised) =>
    /\ ~probe.result.raised
    /\ PrimaryHits # <<>> => probe.result.value = PrimaryHits
    /\ (SecondaryCalls = 1) <=> (PrimaryHits = <<>> /\ ~probe.cfg.tavily_only)
    /\ SecondaryCalls \in {0, 1}
    /\ (PrimaryHits = <<>> /\ probe.cfg.tavily_only) => probe.result.value = <<>>
    /\ (PrimaryHits = <<>> /\ ~probe.cfg.tavily_only) =>
         probe.result.value =
           (IF probe.dreply.ddgs = "ok" \/ probe.dreply.html = "ok"
            THEN probe.dreply.results ELSE <<>>)

C12_Witness ==
  /\ IsSearchProbe
  /\ probe.cfg = [tavily |-> TRUE, tavily_only |-> FALSE]
  /\ ~probe.treply.raised
  /\ probe.treply.results = <<>>
  /\ probe.dreply.ddgs = "err"
  /\ probe.result.value # <<>>

\* C13: when the vector index throws on every call, retrieve_docs returns the
\* empty sequence and does not raise.
C13_FailSoft ==
  (/\ probe.called
   /\ probe.kind = "retrieve_docs"
   /\ ~IndexOk(probe.reply)) =>
    probe.result = [raised |-> FALSE, value |-> <<>>]

C13_Witness ==
  /\ probe.called
  /\ probe.kind = "retrieve_docs"
  /\ probe.reply.make = "ok"
  /\ probe.reply.invoke = "err"
  /\ probe.reply.legacy = "err"
  /\ probe.result = [raised |-> FALSE, value |-> <<>>]

(* ==================== properties of run_full_research ================== *)
IsResearchProbe == probe.called /\ probe.kind = "run_full_research"

\* the hit has a URL and content
HasUrlAndContent(h) ==
  /\ "url" \in DOMAIN h /\ h.url # <<>>
  /\ "content" \in DOMAIN h /\ h.content # 0

RECURSIVE KeptUrls(_)
\* the URLs of the hits that are not skipped, in order
KeptUrls(hits) ==
  IF hits = <<>> THEN <<>>
  ELSE (IF HasUrlAndContent(Head(hits)) THEN <<Head(hits).url>> ELSE <<>>)
       \o KeptUrls(Tail(hits))

\* C19: run_full_research skips every hit without URL or without content:
\* per_article holds exactly the other hits, in order, and the skipped ones
\* cause no error; when every hit is skipped nothing raises, no model call is
\* made and overall is the fixed insufficient-content message.
C19_SkipsUnusable ==
  IsResearchProbe =>
    LET res == probe.result
        kept == KeptUrls(probe.hits)
    IN  /\ Len(res.per_article) = Len(kept)
        /\ \A i \in 1..Len(kept) : res.per_article[i].url = kept[i]
        /\ kept = <<>> =>
             /\ ~res.raised
             /\ res.nllm = 0
             /\ res.overall = NO_CONTENT

C19_Witness ==
  /\ IsResearchProbe
  /\ Len(probe.hits) = 2
  /\ ~HasUrlAndContent(probe.hits[1])
  /\ HasUrlAndContent(probe.hits[2])
  /\ Len(probe.result.per_article) = 1
  /\ probe.result.per_article[1].url = probe.hits[2].url

(* ================== properties of the engine, continued =============== *)
\* C20: when no article has usable content (every hit is too short to be
\* summarized, or there is none), the overall synthesis is the fixed
\* insufficient-content message and the language model is not called.
C20_NoSynthesis ==
  [][(/\ NodeStep("summarizer")
      /\ Mode = "research"
      /\ \A i \in 1..Len(Get(ws, "web_results", <<>>)) :
           ~Ingestible(ws.web_results[i])) =>
       /\ Get(ws', "overall_summary", NO_CONTENT) = NO_CONTENT
       /\ calls'.llm = 0]_vars

(* ======================= properties of the ingestion =================== *)
\* worker w takes a step of an ingestion in which no store call has failed
CleanStep(w) ==
  /\ ing[w].pc # "done"
  /\ ing'[w] # ing[w]
  /\ ~ing[w].failed

\* the chunk ids of an ingestion
ChunkIdsOf(doc_id, text) ==
  {_chunk_id_from_content(split_text(text)[i], doc_id, i - 1) :
     i \in 1..NumChunks(text)}

\* C14: an ingestion of an article that was already ingested into the same
\* session (to the end, without a failed store call) adds no vector-index
\* entry and no durable chunk record, whether or not the session's cache was
\* dropped in between and whatever other sessions ingested.
C14_Idempotent ==
  [][\A w \in Workers :
       (CleanStep(w) /\ ing[w].repeat) =>
         (vindex' = vindex /\ chunks' = chunks)]_vars

\* C15: the chunk ids cached for a session are all recorded durably for that
\* session.
C15_CacheSubset ==
  \A sid \in DOMAIN chunk_ids :
    \A c \in chunk_ids[sid] :
      \E r \in chunks : r.chunk_id = c /\ r.session_id = sid

\* C16: the chunks handed to the vector index are those whose durable lookup
\* returned absent; in particular none whose lookup failed.
C16_NoBlindInsert ==
  [][\A w \in Workers :
       (ing[w].pc = "add" /\ vindex' # vindex /\ ing'[w] # ing[w]) =>
         \A k \in 1..Len(ing[w].docs_to_add) :
           ing[w].lookup[ing[w].docs_to_add[k].position + 1] = "absent"]_vars

\* C17: after every ingestion that ran to its end without a failed store
\* call, alone or interleaved with another ingestion of the same article into
\* the same session, each chunk of the article is in the vector index under
\* the session at least once and the chunks table holds a row with its id
\* (of this session, or of another session that ingested the chunk).
C17_AtLeastOnce ==
  \A key \in hist.clean :
    \A c \in ChunkIdsOf(key[2], key[3]) :
      /\ CopiesIn(<<key[1], c>>, vindex) >= 1
      /\ \E r \in chunks :
           /\ r.chunk_id = c
           /\ r.session_id = key[1] \/ CopiesIn(<<r.session_id, c>>, vindex) >= 1

\* two ingestions of the article raced in session s1 and both inserted
C17_Witness ==
  /\ hist.begun = 2
  /\ \A w \in Workers : ing[w].pc = "done"
  /\ \E key \in hist.clean :
       /\ key[1] = "s1"
       /\ \A c \in ChunkIdsOf(key[2], key[3]) :
            /\ CopiesIn(<<"s1", c>>, vindex) = 2
            /\ \E r \in chunks : r.chunk_id = c /\ r.session_id = "s1"

\* worker w skips the chunk it is looking at
Skips(w) ==
  /\ ing[w].pc \in {"mem", "db"}
  /\ ing'[w] # ing[w]
  /\ ing'[w].idx = ing[w].idx + 1
  /\ ing'[w].docs_to_add = ing[w].docs_to_add

\* C18: a chunk is skipped in session S only if the vector index already
\* holds the chunk under S; what other sessions ingested causes no skip.
C18_SessionScoped ==
  [][\A w \in Workers :
       Skips(w) =>
         CopiesIn(<<ing[w].session_id,
                    _chunk_id_from_content(ing[w].parts[ing[w].idx + 1],
                                           ing[w].doc_id, ing[w].idx)>>,
                  vindex) >= 1]_vars

\* an ingestion into s1 skipped a chunk that s1 held once, while s2, which
\* had ingested the chunk first, held it too
C18_Witness ==
  \E w \in Workers :
    /\ ing[w].pc = "done"
    /\ "session_id" \in DOMAIN ing[w]
    /\ ing[w].session_id = "s1"
    /\ ing[w].lookup = <<"cached">>
    /\ \E r \in chunks :
         /\ r.session_id = "s2"
         /\ CopiesIn(<<"s2", r.chunk_id>>, vindex) = 1
         /\ CopiesIn(<<"s1", r.chunk_id>>, vindex) = 1

(* ============== properties of run_full_research, continued ============= *)
\* the positions of the hits that are not skipped, in order
KeptIdx(hits) ==
  SelectSeq([i \in 1..Len(hits) |-> i], LAMBDA i : HasUrlAndContent(hits[i]))

\* C21: a failed summarization call gives "Summary generation failed." for
\* that article and for no other: every hit with URL and content has its entry
\* in per_article, with the placeholder exactly where the call failed; and when
\* the stores work, the chunks of every article long enough to be summarized
\* are in the vector index, those of the failing article included.
C21_BestEffort ==
  IsResearchProbe =>
    LET hits == probe.hits
        idx == KeptIdx(hits)
        per_article == probe.result.per_article
    IN  /\ Len(per_article) = Len(idx)
        /\ \A j \in 1..Len(idx) :
             LET h == hits[idx[j]]
             IN  /\ per_article[j].url = h.url
                 /\ (per_article[j].summary = SUMMARY_FAILED) <=>
                      (h.content >= MIN_ARTICLE_CHARS /\ ~probe.llm_ok[idx[j]])
                 /\ (h.content >= MIN_ARTICLE_CHARS /\ probe.llm_ok[idx[j]]) =>
                      per_article[j].summary = "summary"
                 /\ (probe.mode = "ok" /\ h.content >= MIN_ARTICLE_CHARS) =>
                      \A c \in ChunkIdsOf(stable_doc_id(h.url, Get(h, "title", <<>>)),
                                          h.content) :
                        CopiesIn(<<SID, c>>, vindex) >= 1

\* the first article's summarization fails, the second's succeeds, and the
\* chunks of both are in the vector index
C21_Witness ==
  /\ IsResearchProbe
  /\ probe.mode = "ok"
  /\ Len(probe.hits) = 2
  /\ Get(probe.hits[1], "content", 0) = HugeLen
  /\ Get(probe.hits[2], "content", 0) = LongLen
  /\ ~probe.llm_ok[1]
  /\ probe.llm_ok[2]
  /\ Len(probe.result.per_article) = 2
  /\ probe.result.per_article[1].summary = SUMMARY_FAILED
  /\ probe.result.per_article[2].summary = "summary"
  /\ \A c \in ChunkIdsOf(stable_doc_id(U1, T1), HugeLen) :
       CopiesIn(<<SID, c>>, vindex) = 1

(* ====================== properties of evaluate_answer ================== *)
IsEvalProbe == probe.called /\ probe.kind = "evaluate_answer"

\* the model answered, and its reply holds no JSON object that parses
NotParsable(reply) ==
  reply.kind = "said" /\ ~(HasObject(reply.text) /\ reply.loads.ok)

\* C22 as stated, the marker being read in the model's reply: a reply that is
\* not parsable JSON and holds an affirmative marker gives ok=true with
\* confidence 0.6.
C22_Original ==
  (IsEvalProbe /\ NotParsable(probe.reply) /\ HasMarker(probe.reply.text)) =>
    (probe.result.ok /\ probe.result.confidence = 6)

\* C22: when the model's reply is not parsable JSON, evaluate_answer returns
\* ok=true with confidence 0.6 if the draft answer holds "yes", "true" or
\* "i'm confident" (in any case), otherwise ok=false with confidence 0.2, and
\* notes say that parsing failed; what the reply says does not matter.
C22_Heuristic ==
  (IsEvalProbe /\ NotParsable(probe.reply)) =>
    /\ probe.result.ok = HasMarker(probe.answer)
    /\ probe.result.confidence = (IF HasMarker(probe.answer) THEN 6 ELSE 2)
    /\ probe.result.notes = HEURISTIC_NOTES

\* the reply "I'm confident the answer is correct." on a draft answer "Yes."
C22_Witness ==
  /\ IsEvalProbe
  /\ probe.reply = Said(A_Confident, LoadsFails)
  /\ probe.answer = A_Yes
  /\ probe.result = [ok |-> TRUE, confidence |-> 6, notes |-> HEURISTIC_NOTES]

\* C23: evaluate_answer returns, for every reply of the model, a boolean ok
\* and a confidence between 0 and 1.
C23_WellFormed ==
  IsEvalProbe =>
    /\ probe.result.ok \in BOOLEAN
    /\ probe.result.confidence \in 0..10

(* ================= properties of the engine, continued ================= *)
\* C24: a stage in which a call of the vector index fails (planner preview,
\* local retrieval, chunk upsert, the answer chain's retrieval, the overall
\* synthesis's retrieval) does not raise: the invocation goes on.
C24_IndexFailSoft ==
  [][(status = "running" /\ calls'.index_err /\ visits' # visits)
       => status' # "raised"]_vars

\* the workflow-state fields that stages produce, and those that hold a list
\* or a text
StageFields == {"retrieved_docs", "web_results", "per_article", "overall_summary",
                "answer", "confidence", "evaluation", "sources", "retry_count"}
ListFields == {"retrieved_docs", "web_results", "per_article", "answer", "sources"}

\* field k of state s is cleared in state t: it is gone, or was a non-empty
\* list and is an empty one
Cleared(s, t, k) ==
  \/ k \notin DOMAIN t
  \/ k \in ListFields /\ s[k] # <<>> /\ t[k] = <<>>

\* C25: within one invocation no stage, re-run on a retry or not, clears a
\* field that an earlier stage produced.
C25_NeverCleared ==
  [][(status = "running" /\ status' # "idle") =>
       \A k \in StageFields \cap DOMAIN ws : ~Cleared(ws, ws', k)]_vars

\* a chat or research request arrives: its user message is stored
Arrives == req = "none" /\ messages' # messages

\* C26: when the engine is not initialized, a chat or research request is
\* answered with the error "Workflow not initialized" (500), no stage of the
\* engine runs, and the request is over: nothing is retried.
C26_NotInitialized ==
  [][~workflow =>
       /\ status' = "idle" /\ active' = {} /\ visits' = ZeroVisits
       /\ req' = "none"
       /\ Arrives => /\ response'.code = 500
                     /\ response'.detail = "Workflow not initialized"]_vars

\* a research request was refused by a service without engine
C26_Witness ==
  /\ ~workflow
  /\ messages # <<>>
  /\ response = [code |-> 500, kind |-> "research",
                  detail |-> "Workflow not initialized"]
  /\ status = "idle" /\ visits = ZeroVisits

\* the state after the summarizer and the evaluator of one superstep ran, the
\* summarizer first (order 1) or the evaluator first (order 2), and whether
\* feedback is triggered; ok: neither raised
AfterBoth(s0, order, llm_ok, synth, areply, ereply) ==
  LET so1 == SummarizerOut(_normalize(s0), llm_ok, synth)
      eo1 == EvaluatorOut(_normalize(so1.upd @@ s0), areply, ereply)
      eo2 == EvaluatorOut(_normalize(s0), areply, ereply)
      so2 == SummarizerOut(_normalize(eo2.upd @@ s0), llm_ok, synth)
  IN  IF order = 1
      THEN [ok |-> ~so1.raised /\ ~eo1.raised,
            state |-> eo1.upd @@ (so1.upd @@ s0),
            feedback |-> ~should_end_from_evaluator(eo1.upd @@ (so1.upd @@ s0))]
      ELSE [ok |-> ~so2.raised /\ ~eo2.raised,
            state |-> so2.upd @@ (eo2.upd @@ s0),
            feedback |-> ~should_end_from_evaluator(eo2.upd @@ s0)]

\* C27: determinism. The stages are functions of the workflow state and of
\* the responses they receive, and the one freedom of the schedule, the order
\* of summarizer and evaluator after the retriever, does not show: for the
\* same responses both orders give the same workflow state and trigger the
\* same next stage.
C27_Deterministic ==
  (status = "running" /\ active = {"summarizer", "evaluator"}) =>
    \A llm_ok \in SummaryReplies(Get(ws, "web_results", <<>>)) :
    \A synth \in SynthReplies :
    \A areply \in AnswerReplies :
    \A ereply \in EvalReplies :
      LET a == AfterBoth(ws, 1, llm_ok, synth, areply, ereply)
          b == AfterBoth(ws, 2, llm_ok, synth, areply, ereply)
      IN  /\ a.ok = b.ok
          /\ a.ok => (a.state = b.state /\ a.feedback = b.feedback)

\* the summarizer is about to summarize an article while the evaluator is due
C27_Witness ==
  /\ status = "running" /\ active = {"summarizer", "evaluator"}
  /\ SummarizerOut(_normalize(ws), [i \in 1..Len(Get(ws, "web_results", <<>>)) |-> TRUE],
                     "ok").upd # EmptyState

(* ====================== properties of stable_doc_id ==================== *)
IsDocIdProbe == probe.called /\ probe.kind = "stable_doc_id"

\* C28 as stated: equal pairs get equal identifiers, and any two pairs that
\* differ in url or in title get different identifiers.
C28_Original ==
  IsDocIdProbe =>
    ((probe.url1 = probe.url2 /\ probe.title1 = probe.title2)
       <=> probe.id1 = probe.id2)

\* C28: stable_doc_id is deterministic, and changing the url alone or the
\* title alone changes the identifier.
C28_EachArgument ==
  IsDocIdProbe =>
    /\ (probe.url1 = probe.url2 /\ probe.title1 = probe.title2)
         => probe.id1 = probe.id2
    /\ (probe.url1 # probe.url2 /\ probe.title1 = probe.title2)
         => probe.id1 # probe.id2
    /\ (probe.url1 = probe.url2 /\ probe.title1 # probe.title2)
         => probe.id1 # probe.id2

\* two articles of one url whose titles differ, one of them holding "::"
C28_Witness ==
  /\ IsDocIdProbe
  /\ probe.url1 = probe.url2
  /\ probe.title1 = <<"c">> /\ probe.title2 = <<"b", ":", ":", "c">>
  /\ probe.id1 # probe.id2

\* the feedback stage runs (it is alone in its superstep)
FeedbackRuns == status = "running" /\ active = {"feedback"} /\ active' # active

\* C29: the feedback stage adds exactly 1 to the retry counter, sets decision
\* to strategy quick_web with reason low_confidence_retry whatever it was, and
\* leaves every other field of the workflow state as it is.
C29_FeedbackFrame ==
  [][FeedbackRuns =>
       /\ ws'.retry_count = Get(ws, "retry_count", 0) + 1
       /\ ws'.decision = [mode |-> "quick_web", reason |-> "low_confidence_retry"]
       /\ DOMAIN ws' = DOMAIN ws \cup {"retry_count", "decision"}
       /\ \A k \in DOMAIN ws \ {"retry_count", "decision"} : ws'[k] = ws[k]]_vars

\* feedback has run on an invocation whose strategy was local: it made no
\* web search so far
C29_Witness ==
  /\ status = "running" /\ active = {"retriever"}
  /\ visits["feedback"] = 1
  /\ ws.retry_count = 1
  /\ ws.decision = [mode |-> "quick_web", reason |-> "low_confidence_retry"]
  /\ "web_results" \notin DOMAIN ws
  /\ "answer" \in DOMAIN ws

\* the retriever stage runs (it is alone in its superstep)
RetrieverRuns == status = "running" /\ active = {"retriever"} /\ active' # active

RECURSIVE UrlsWithContent(_, _)
\* one hit per URL whose fetch returned text, in the order of the request
UrlsWithContent(urls, fetched) ==
  IF urls = <<>> THEN <<>>
  ELSE (IF Head(fetched) # 0
        THEN <<[title |-> <<>>, url |-> Head(urls), content |-> Head(fetched)]>>
        ELSE <<>>)
       \o UrlsWithContent(Tail(urls), Tail(fetched))

\* C30: with strategy full_research and explicit URLs the retriever stage
\* makes no web-search call, fetches every URL of the request once, in order,
\* stores as web results exactly the URLs whose fetch returned text, in that
\* order, and does not raise when a fetch returns nothing.
C30_ExplicitUrls ==
  [][(RetrieverRuns /\ Strategy = "full_research" /\ Get(ws, "urls", <<>>) # <<>>) =>
       /\ status' # "raised"
       /\ calls'.search = 0
       /\ calls'.fetch = Len(ws.urls)
       /\ Len(calls'.fetched) = Len(ws.urls)
       /\ ws'.web_results = UrlsWithContent(ws.urls, calls'.fetched)]_vars

\* of two URLs the first gave nothing and the second a long text
C30_Witness ==
  /\ status = "running" /\ active = {"summarizer", "evaluator"}
  /\ Get(ws, "urls", <<>>) = <<U1, U2>>
  /\ calls.fetched = <<0, LongLen>>
  /\ calls.search = 0
  /\ ws.web_results = <<[title |-> <<>>, url |-> U2, content |-> LongLen]>>

(* ================= properties of the retriever's web branch ============ *)
IsWebBranchProbe == probe.called /\ probe.kind = "web_branch"

RECURSIVE DocsOfHits(_, _)
\* one document per hit with content, in the order of the hits
DocsOfHits(hits, sid) ==
  IF hits = <<>> THEN <<>>
  ELSE LET h == Head(hits)
       IN  (IF Get(h, "content", 0) # 0
            THEN <<[page_content |-> h.content,
                    metadata |-> [url |-> Get(h, "url", <<>>),
                                  title |-> Get(h, "title", <<>>),
                                  session_id |-> sid]]>>
            ELSE <<>>)
           \o DocsOfHits(Tail(hits), sid)

\* C31: for quick_web the documents that the retriever stage produces are
\* exactly the search hits with non-empty content, in order, each tagged with
\* the session of the request; hits without content produce no document, and
\* when no hit has content the stage produces no documents at all.
C31_PseudoDocs ==
  (IsWebBranchProbe /\ probe.mode = "quick_web") =>
    /\ probe.out.web_results = probe.results
    /\ Get(probe.out, "retrieved_docs", <<>>) = DocsOfHits(probe.results, probe.sid)
    /\ \A i \in 1..Len(Get(probe.out, "retrieved_docs", <<>>)) :
         probe.out.retrieved_docs[i].metadata.session_id = probe.sid

\* of two hits, one without content and one with, the second became a document
C31_Witness ==
  /\ IsWebBranchProbe /\ probe.mode = "quick_web"
  /\ Len(probe.results) = 2
  /\ Get(probe.results[1], "content", 0) = 0
  /\ Get(probe.results[2], "content", 0) # 0
  /\ Len(probe.out.retrieved_docs) = 1
  /\ probe.out.retrieved_docs[1].page_content = probe.results[2].content

(* ================= properties of the engine and the stores ============= *)
\* the vector index, the chunks table and the sessions' chunk-id sets
Stores == <<vindex, chunks, chunk_ids>>

\* C32: while a chat-mode invocation runs (strategy local or quick_web, the
\* retries included) the vector index, the chunks table and the in-memory
\* chunk-id sets do not change; during an invocation they change only in the
\* summarizer stage of a full_research invocation.
C32_ChatFrame ==
  [][(status = "running" /\ Stores' # Stores) =>
       /\ Mode = "research"
       /\ Strategy = "full_research"
       /\ "summarizer" \in active]_vars

\* a chat invocation ended after two retries whose last search gave an
\* article-sized hit, and nothing was ingested
C32_Witness ==
  /\ status = "terminal" /\ Mode = "chat"
  /\ RetryCount = 2
  /\ \E i \in 1..Len(Get(ws, "web_results", <<>>)) : Ingestible(ws.web_results[i])
  /\ vindex = EmptyBag /\ chunks = {}

\* the evaluator stage runs
EvaluatorRuns ==
  status = "running" /\ "evaluator" \in active /\ "evaluator" \notin active'

\* C33: on a retry whose web search gave no hit with content, the evaluator
\* does not answer again from the documents of the previous attempt: it makes
\* no model call and leaves the answer as it is.
C33_FreshDocs ==
  [][(EvaluatorRuns /\ RetryCount >= 1
        /\ DocsOfHits(Get(ws, "web_results", <<>>), SID) = <<>>) =>
       /\ calls' = ZeroCalls
       /\ status' # "raised"
       /\ Get(ws', "answer", NoText) = Get(ws, "answer", NoText)]_vars

\* C34: in a chat invocation whose first retrieval gave no documents, the
\* evaluator records no evaluation and no answer, feedback is never visited
\* and the invocation ends: the missing evaluation counts as ok.
C34_NoDocsNoRetry ==
  [][(status = "running" /\ Mode = "chat" /\ visits["retriever"] = 1
        /\ RetryCount = 0 /\ NoDocs /\ status' # "raised") =>
       /\ visits'["feedback"] = 0
       /\ "feedback" \notin active' \cup pending'
       /\ "evaluation" \notin DOMAIN ws'
       /\ "answer" \notin DOMAIN ws'
       /\ visits["evaluator"] = 1 => status' = "terminal"]_vars

\* a chat invocation ended after one pass: web search was made, no document,
\* no answer, no retry
C34_Witness ==
  /\ status = "terminal" /\ Mode = "chat"
  /\ NoDocs
  /\ "web_results" \in DOMAIN ws
  /\ visits["evaluator"] = 1 /\ visits["retriever"] = 1 /\ visits["feedback"] = 0
  /\ "answer" \notin DOMAIN ws

\* the fields written by the evaluator
EvalFields == {"answer", "confidence", "evaluation", "sources"}

\* the evaluator's fields are as the state's documents ask for
EvalFieldsFit(state) ==
  /\ EvalFields \subseteq DOMAIN state
  /\ Len(state.sources) = Len(state.retrieved_docs)
  /\ state.confidence = state.evaluation.confidence

\* C35: answer, confidence, evaluation and sources are all present or all
\* absent in the workflow state. They are written by the evaluator only, when
\* it runs on at least one retrieved document, all four at once, and sources
\* then has one entry per document of that evaluation; so they are present
\* exactly when the evaluator has run on at least one document.
C35_EvalFields ==
  /\ [](EvalFields \cap DOMAIN ws \in {{}, EvalFields})
  /\ [][status = "running" =>
          IF EvaluatorRuns /\ ~NoDocs /\ status' # "raised"
          THEN ws'.retrieved_docs = ws.retrieved_docs /\ EvalFieldsFit(ws')
          ELSE \A k \in EvalFields :
                 /\ k \in DOMAIN ws' <=> k \in DOMAIN ws
                 /\ k \in DOMAIN ws => ws'[k] = ws[k]]_vars
  /\ [](status = "terminal" /\ EvalFields \subseteq DOMAIN ws => EvalFieldsFit(ws))

\* the evaluator answered from three local documents
C35_Witness ==
  /\ EvalFields \subseteq DOMAIN ws
  /\ visits["evaluator"] = 1
  /\ Len(ws.retrieved_docs) = 3
  /\ Len(ws.sources) = 3

\* C36: the strategy that the retriever sees is resolved and fits the mode:
\* full_research in research-mode invocations only, local and quick_web in
\* chat-mode invocations only, and quick_web from the first feedback step to
\* the end of the invocation.
C36_StrategyFitsMode ==
  (status \in {"running", "terminal"} /\ visits["planner"] >= 1) =>
    /\ Strategy \in {"local", "quick_web", "full_research"}
    /\ Strategy = "full_research" <=> Mode = "research"
    /\ Strategy \in {"local", "quick_web"} <=> Mode = "chat"
    /\ visits["feedback"] >= 1 => Strategy = "quick_web"

\* the retriever is due again after a feedback step on a local attempt
C36_Witness ==
  /\ status = "running" /\ active = {"retriever"}
  /\ visits["feedback"] = 1
  /\ Mode = "chat" /\ Strategy = "quick_web"
  /\ Len(Get(ws, "retrieved_docs_preview", <<>>)) = 3

(* ================ properties of the ingestion, continued =============== *)
\* C37: after ingestions that ran to their end without a failed store call,
\* in whatever sessions, every chunk that is in the vector index under
\* session S has a durable chunk record for S, so that
\* chunk_exists_for_session reports it when the cache is gone.
C37_DurableRecord ==
  \A key \in hist.clean :
    \A c \in ChunkIdsOf(key[2], key[3]) :
      CopiesIn(<<key[1], c>>, vindex) >= 1 =>
        chunk_exists_for_session(chunks, c, key[1])

(* ==================== properties of the message buffer ================= *)
\* user and assistant messages alternate, beginning with the user
Alternates(msgs) ==
  \A i \in 1..Len(msgs) :
    msgs[i].role = (IF i % 2 = 1 THEN "user" ELSE "assistant")

\* C38: a chat or research request that fails (no engine, or the engine
\* raises) leaves the session's message buffer as it was before the request,
\* so between requests the buffer holds complete user/assistant pairs.
C38_FailedRequestFrame ==
  req = "none" => (Alternates(messages) /\ Len(messages) % 2 = 0)

(* ==================== properties of session ownership ================== *)
\* the owner of a session: of the held one, else of the saved one
OwnerOf(session_id) ==
  IF session_id \in DOMAIN sessions THEN sessions[session_id].user_id
  ELSE IF session_id \in DOMAIN chats THEN chats[session_id].user_id
  ELSE None

\* C39: a chat, research or save request by a user on a session that another
\* user owns is answered 403 Forbidden and changes neither the held sessions
\* nor the saved chats, whether the session is held in memory or only saved.
C39_Forbidden ==
  [][(/\ probe'.called
      /\ probe'.kind \in {"chat", "research", "save_chat"}
      /\ OwnerOf(probe'.session_id) \notin {None, "", probe'.user_id})
     => (probe'.code = 403 /\ sessions' = sessions /\ chats' = chats)]_vars

====
